---- MODULE Spec2Model ----
(***************************************************************************)
(* A model of the EtherFi strategy arena's per-agent decision engine.      *)
(*                                                                         *)
(* The repository holds several generations of the agent; each is modelled *)
(* by its own specification over the shared variables below:               *)
(*   SpecLimiter  the process-wide token bucket   (lib/utils/rateLimiter)  *)
(*   SpecBucket   the day-scoped budget           (part_004)               *)
(*   SpecHybrid   the hybrid agent with ledger    (part_005)               *)
(*   SpecOracle   the oracle-driven agent         (part_006)               *)
(*   SpecCatalog  the catalog-keyed agent         (lib/agents)             *)
(*   SpecDecide   the validating agent, decide()  (part_004)               *)
(*   SpecDecideLive  SpecDecide with the code's scheduling                 *)
(*   SpecArena    the compete route's day loop    (app/api/agents/compete) *)
(*   SpecShared   concurrent cycles on the limiter (part_005)              *)
(*   SpecRank     filter-score-sort, run twice    (part_005, part_004)     *)
(*                                                                         *)
(* Numbers.  The code computes in IEEE doubles; the model computes in      *)
(* fixed point: APYs and scores in thousandths of a percent (3.0% = 3000), *)
(* balances in millionths of an ETH (10 ETH = 10000000), gas prices in     *)
(* gwei, wall-clock time in ticks.  Divisions round toward minus infinity. *)
(***************************************************************************)
EXTENDS Integers, Sequences, FiniteSets, TLC

VARIABLES
    clock,          \* Date.now(), in ticks
    globalLimiter,  \* the process-wide RateLimiter object
    grants,         \* history: the clock value of every take() that returned true
    claudeBucket,   \* one agent's DailyTokenBucket object
    simDay,         \* the day of the market tick the simulation is at
    dayGrants,      \* history: per simulated day, how many tryConsume(day) returned true
    agent,          \* one StrategyAgent object (its fields depend on the generation);
                    \* in SpecArena and SpecShared, one per agent name
    cycle           \* the agent's last decision cycle, or the one in flight: what it read, did, returned

vars == <<clock, globalLimiter, grants, claudeBucket, simDay, dayGrants, agent, cycle>>

limiterVars == <<globalLimiter, grants>>
bucketVars  == <<claudeBucket, simDay, dayGrants>>
agentVars   == <<agent, cycle>>

(***************************************************************************)
(* Bounds of the model.                                                    *)
(***************************************************************************)
\* The last clock tick a behaviour reaches.
MaxClock == 7
\* Ticks per refill interval of the process-wide limiter (60 000 ms).
IntervalTicks == 3
\* Ticks per refill interval of the day-scoped budget (86 400 000 ms).
DayTicks == 2
\* The last simulated day (days are 0 .. MaxDay).
MaxDay == 2
\* The last day a ledger-keeping agent is fed (its ledger holds at most MaxLedgerDay + 1 entries).
MaxLedgerDay == 1
\* The last day the validating agent decides for.
MaxDecideDay == 1

Days == 0 .. MaxDay

Min(a, b) == IF a <= b THEN a ELSE b
Max(a, b) == IF a >= b THEN a ELSE b

(***************************************************************************)
(* RateLimiter: the process-wide token bucket.  part_005 lines 23-51 hold  *)
(* a verbatim copy of the class.                                           *)
(***************************************************************************)
\* new RateLimiter(5, 60_000): the singleton's capacity.
LimiterCapacity == 5

\* constructor(capacity, refillIntervalMs), run at time `now`.
NewRateLimiter(capacity, refillIntervalMs, now) ==
    [capacity |-> capacity, tokens |-> capacity,
     refillIntervalMs |-> refillIntervalMs, lastRefill |-> now]

\* A refill that forgets to advance lastRefill.
refill_KeepsLastRefill(l, now) ==
    LET elapsed == now - l.lastRefill IN
    IF elapsed >= l.refillIntervalMs
    THEN [l EXCEPT !.tokens = l.capacity]
    ELSE l

\* A refill that adds the elapsed intervals' tokens without the cap.
refill_Uncapped(l, now) ==
    LET elapsed == now - l.lastRefill IN
    IF elapsed >= l.refillIntervalMs
    THEN LET cycles == elapsed \div l.refillIntervalMs IN
         [l EXCEPT !.tokens = l.tokens + cycles * l.capacity,
                   !.lastRefill = l.lastRefill + cycles * l.refillIntervalMs]
    ELSE l

\* private refill(): lazy refill from the elapsed wall-clock time.
refill(l, now) ==
    LET elapsed == now - l.lastRefill IN
    IF elapsed >= l.refillIntervalMs
    THEN LET cycles == elapsed \div l.refillIntervalMs IN
         [l EXCEPT !.tokens = Min(l.capacity, l.tokens + cycles * l.capacity),
                   !.lastRefill = l.lastRefill + cycles * l.refillIntervalMs]
    ELSE l

\* A take() whose decrement is lost: the token is granted and the count written
\* back is the one read before the grant.
take_LosesUpdate(l, now) ==
    LET r == refill(l, now) IN
    IF r.tokens > 0
    THEN [ok |-> TRUE,  lim |-> r]
    ELSE [ok |-> FALSE, lim |-> r]

\* take(): the result and the limiter after the call.
take(l, now) ==
    LET r == refill(l, now) IN
    IF r.tokens > 0
    THEN [ok |-> TRUE,  lim |-> [r EXCEPT !.tokens = r.tokens - 1]]
    ELSE [ok |-> FALSE, lim |-> r]

(***************************************************************************)
(* DailyTokenBucket: the day-scoped budget of one agent.                   *)
(***************************************************************************)
\* lastDaySeen = null; also the `day` argument when it is left out.
NoDay == -1

\* new DailyTokenBucket(1, 86_400_000): one token per day.
BucketCapacity == 1

\* constructor(capacity, refillMs), run at time `now`.
NewDailyTokenBucket(capacity, refillMs, now) ==
    [capacity |-> capacity, tokens |-> capacity, refillMs |-> refillMs,
     lastRefill |-> now, lastDaySeen |-> NoDay]

\* tryConsume(day?): the result and the bucket after the call.
tryConsume(b, day, now) ==
    LET b1 == IF now - b.lastRefill >= b.refillMs
              THEN LET cycles == (now - b.lastRefill) \div b.refillMs IN
                   [b EXCEPT !.tokens = Min(b.capacity, b.tokens + cycles),
                             !.lastRefill = b.lastRefill + cycles * b.refillMs]
              ELSE b
        b2 == IF day # NoDay /\ (b1.lastDaySeen = NoDay \/ day # b1.lastDaySeen)
              THEN [b1 EXCEPT !.tokens = b1.capacity, !.lastDaySeen = day]
              ELSE b1
    IN  IF b2.tokens > 0
        THEN [ok |-> TRUE,  bucket |-> [b2 EXCEPT !.tokens = b2.tokens - 1]]
        ELSE [ok |-> FALSE, bucket |-> b2]

(***************************************************************************)
(* Values shared by the agents.                                            *)
(***************************************************************************)
\* JavaScript's undefined, for a string field and for a number field.
UndefinedStr == "<undefined>"
UndefinedNum == 0 - 1000000

\* `x || y` on strings: undefined and "" are falsy.
OrStr(x, y) == IF x = UndefinedStr \/ x = "" THEN y ELSE x
\* `x ?? y` on strings and on numbers.
NullishStr(x, y) == IF x = UndefinedStr THEN y ELSE x
NullishNum(x, y) == IF x = UndefinedNum THEN y ELSE x

\* this.constraints left undefined.
NoConstraints == [none |-> TRUE]

\* riskOrder / riskLevels: LOW < MEDIUM < HIGH < EXTREME.
riskOrder == <<"LOW", "MEDIUM", "HIGH", "EXTREME">>
\* riskOrder.indexOf(r), zero-based.
RiskIndexOf(r) == (CHOOSE i \in 1 .. Len(riskOrder) : riskOrder[i] = r) - 1

\* String.prototype.toLowerCase on the network and protocol names of the catalog.
ToLowerCase(s) ==
    CASE s = "Ethereum" -> "ethereum"
      [] s = "Base"     -> "base"
      [] s = "Arbitrum" -> "arbitrum"
      [] s = "EtherFi"  -> "etherfi"
      [] s = "Aave"     -> "aave"
      [] s = "Morpho"   -> "morpho"
      [] s = "Merkl"    -> "merkl"
      [] OTHER          -> s

\* normalize(s): trim and lower-case, on the names of the model.
normalize(s) ==
    CASE s \in {"Simple weETH Holding", " simple weeth holding "} -> "simple weeth holding"
      [] s \in {"Aave Loop x5 (Ethereum)", "AAVE LOOP X5 (ETHEREUM)"} -> "aave loop x5 (ethereum)"
      [] s \in {"Merkl Boost: USDC on Morpho (Base)"} -> "merkl boost: usdc on morpho (base)"
      [] s \in {"Aggressive: Borrow USDC -> Deploy to Morpho"} -> "aggressive: borrow usdc -> deploy to morpho"
      [] s \in {"Unlisted Vault "} -> "unlisted vault"
      [] OTHER -> ToLowerCase(s)

(***************************************************************************)
(* The strategy catalog (findAllStrategies), an external data source: a    *)
(* StrategyOption is modelled by its name, expected APY, risk, protocols,  *)
(* networks, the number of its steps and the leverage figure its text      *)
(* carries (0: the text names none).                                       *)
(***************************************************************************)
SimpleHolding ==
    [name |-> "Simple weETH Holding", expectedAPY |-> 3000, risk |-> "LOW",
     protocols |-> {"EtherFi"}, networks |-> {"Ethereum"}, steps |-> 3, leverageText |-> 0]
AaveLoop ==
    [name |-> "Aave Loop x5 (Ethereum)", expectedAPY |-> 7000, risk |-> "MEDIUM",
     protocols |-> {"EtherFi", "Aave"}, networks |-> {"Ethereum"}, steps |-> 5, leverageText |-> 5]
MerklBoost ==
    [name |-> "Merkl Boost: USDC on Morpho (Base)", expectedAPY |-> 6900, risk |-> "LOW",
     protocols |-> {"Morpho", "Merkl", "EtherFi"}, networks |-> {"Base"}, steps |-> 4, leverageText |-> 0]
Aggressive ==
    [name |-> "Aggressive: Borrow USDC -> Deploy to Morpho", expectedAPY |-> 12000, risk |-> "HIGH",
     protocols |-> {"EtherFi", "Aave", "Morpho", "Merkl"}, networks |-> {"Ethereum", "Arbitrum"},
     steps |-> 5, leverageText |-> 4]

\* The gas prices (gwei) of the ticks fed to the ledger-keeping agents.
LedgerGasPrices == {12, 40, 55}

\* The market ticks' sentiments; the feed pairs FEAR with a declining trend.
Sentiments == {"NEUTRAL", "FEAR"}

MarketTick(day, gasPrice, sentiment) ==
    [day |-> day, gasPrice |-> gasPrice,
     trend |-> IF sentiment = "FEAR" THEN "DECLINING" ELSE "STABLE", sentiment |-> sentiment]

(***************************************************************************)
(* SpecLimiter: take() calls on the process-wide bucket at arbitrary times.*)
(***************************************************************************)
InitIdleBucket ==
    /\ claudeBucket = NewDailyTokenBucket(BucketCapacity, DayTicks, 0)
    /\ simDay = 0
    /\ dayGrants = [d \in Days |-> 0]

\* No agent takes part.
NoAgent == [none |-> TRUE]
NoCycle == [path |-> "none"]

InitNoAgent ==
    /\ agent = NoAgent
    /\ cycle = NoCycle

InitLimiter ==
    /\ clock = 0
    /\ globalLimiter = NewRateLimiter(LimiterCapacity, IntervalTicks, 0)
    /\ grants = <<>>
    /\ InitIdleBucket
    /\ InitNoAgent

\* The wall clock advances between two calls.
LimiterTick ==
    /\ clock < MaxClock
    /\ clock' = clock + 1
    /\ UNCHANGED <<limiterVars, bucketVars, agentVars>>

\* Some cycle calls globalLimiter.take().
LimiterTake ==
    LET r == take(globalLimiter, clock) IN
    /\ globalLimiter' = r.lim
    /\ grants' = IF r.ok THEN Append(grants, clock) ELSE grants
    /\ UNCHANGED <<clock, bucketVars, agentVars>>

NextLimiter == LimiterTick \/ LimiterTake

SpecLimiter == InitLimiter /\ [][NextLimiter]_vars

(***************************************************************************)
(* SpecBucket: tryConsume(day) calls of one agent, the simulated day never *)
(* decreasing (the market feed is ordered by day), the wall clock free.    *)
(***************************************************************************)
InitBucket ==
    /\ clock = 0
    /\ globalLimiter = NewRateLimiter(LimiterCapacity, IntervalTicks, 0)
    /\ grants = <<>>
    /\ InitIdleBucket
    /\ InitNoAgent

BucketTick ==
    /\ clock < MaxClock
    /\ clock' = clock + 1
    /\ UNCHANGED <<limiterVars, bucketVars, agentVars>>

\* The simulation moves on to the next day.
BucketNextDay ==
    /\ simDay < MaxDay
    /\ simDay' = simDay + 1
    /\ UNCHANGED <<clock, limiterVars, claudeBucket, dayGrants, agentVars>>

\* claudeBucket.tryConsume(market.day)
BucketTryConsume ==
    LET r == tryConsume(claudeBucket, simDay, clock) IN
    /\ claudeBucket' = r.bucket
    /\ dayGrants' = IF r.ok THEN [dayGrants EXCEPT ![simDay] = @ + 1] ELSE dayGrants
    /\ UNCHANGED <<clock, limiterVars, simDay, agentVars>>

NextBucket == BucketTick \/ BucketNextDay \/ BucketTryConsume

SpecBucket == InitBucket /\ [][NextBucket]_vars

(***************************************************************************)
(* The ledger step shared by the agents that keep a portfolio.             *)
(***************************************************************************)
\* One day's yield of balance p (micro-ETH) at apy (thousandths of a percent):
\* (p * apy) / 100 / 365, the balance first cut to 1e-4 ETH to stay in 32 bits.
DailyYield(p, apy) == ((p \div 100) * apy) \div 365000

\* this.portfolio = 10 (ETH).
InitialPortfolio == 10000000

(***************************************************************************)
(* The hybrid agent (part_005): numeric score first, then, if the          *)
(* process-wide limiter grants a token, the oracle picks among the top 5.  *)
(***************************************************************************)
\* BASE_WEETH_APY: 3.0 %.
BASE_WEETH_APY == 3000
\* GAS_PENALTY_PER_GWEI: 0.02 APY points per gwei.
GAS_PENALTY_PER_GWEI == 20
\* RISK_PENALTY.
RISK_PENALTY(risk) ==
    CASE risk = "LOW" -> 0 [] risk = "MEDIUM" -> 2000 [] risk = "HIGH" -> 5000 [] risk = "EXTREME" -> 8000
\* top = scored.slice(0, Math.min(5, scored.length))
TopN == 5

\* The sum of the char codes of the agent's name.
CharCodeSum(name) ==
    CASE name = "Agent 1" -> 576 [] name = "Agent 2" -> 577 [] OTHER -> 0

\* this.bias = (sum of char codes % 7) * 0.1
BiasOf(name) == (CharCodeSum(name) % 7) * 100

\* constructor(config)
NewHybridAgent(name, constraints) ==
    [name |-> name, portfolio |-> InitialPortfolio, transactions |-> <<>>,
     currentStrategy |-> "Simple weETH Holding", currentAPY |-> BASE_WEETH_APY,
     constraints |-> constraints, bias |-> BiasOf(name)]

\* A ledger step that records the balance before the yield as portfolioAfter.
executeDecision_StaleAfter(a, decision, marketData) ==
    LET newStrategy == OrStr(decision.strategy, a.currentStrategy)
        newAPY      == NullishNum(decision.expectedAPY, a.currentAPY)
        isChanging  == newStrategy # a.currentStrategy
        gasCost     == IF isChanging THEN marketData.gasPrice * 3 ELSE 0
        afterGas    == a.portfolio - gasCost
        tx == [day |-> marketData.day, action |-> newStrategy,
               reasoning |-> OrStr(decision.reasoning, "No reasoning provided"),
               portfolioBefore |-> a.portfolio, portfolioAfter |-> afterGas,
               gasCost |-> gasCost]
    IN  [a EXCEPT !.portfolio = afterGas + DailyYield(afterGas, newAPY),
                  !.transactions = Append(@, tx),
                  !.currentStrategy = newStrategy,
                  !.currentAPY = newAPY]

\* A ledger step that computes the yield on the balance before the gas debit.
executeDecision_YieldBeforeGas(a, decision, marketData) ==
    LET newStrategy == OrStr(decision.strategy, a.currentStrategy)
        newAPY      == NullishNum(decision.expectedAPY, a.currentAPY)
        isChanging  == newStrategy # a.currentStrategy
        gasCost     == IF isChanging THEN marketData.gasPrice * 3 ELSE 0
        after       == a.portfolio + DailyYield(a.portfolio, newAPY) - gasCost
        tx == [day |-> marketData.day, action |-> newStrategy,
               reasoning |-> OrStr(decision.reasoning, "No reasoning provided"),
               portfolioBefore |-> a.portfolio, portfolioAfter |-> after,
               gasCost |-> gasCost]
    IN  [a EXCEPT !.portfolio = after,
                  !.transactions = Append(@, tx),
                  !.currentStrategy = newStrategy,
                  !.currentAPY = newAPY]

\* private executeDecision(decision, marketData): gas debit, one day's yield,
\* one transaction, then the new current strategy and APY.
\* gasCost = (gasPrice / 1000) * 0.003 ETH = 3 micro-ETH per gwei.
executeDecision(a, decision, marketData) ==
    LET newStrategy == OrStr(decision.strategy, a.currentStrategy)
        newAPY      == NullishNum(decision.expectedAPY, a.currentAPY)
        isChanging  == newStrategy # a.currentStrategy
        gasCost     == IF isChanging THEN marketData.gasPrice * 3 ELSE 0
        afterGas    == a.portfolio - gasCost
        after       == afterGas + DailyYield(afterGas, newAPY)
        tx == [day |-> marketData.day, action |-> newStrategy,
               reasoning |-> OrStr(decision.reasoning, "No reasoning provided"),
               portfolioBefore |-> a.portfolio, portfolioAfter |-> after,
               gasCost |-> gasCost]
    IN  [a EXCEPT !.portfolio = after,
                  !.transactions = Append(@, tx),
                  !.currentStrategy = newStrategy,
                  !.currentAPY = newAPY]

RECURSIVE SumGasCost(_)
SumGasCost(txs) == IF txs = <<>> THEN 0 ELSE txs[1].gasCost + SumGasCost(Tail(txs))

\* getPerformance(): initialValue 10, the balance, the gas costs of the
\* transactions summed up, and their number (totalReturn is derived from the
\* first two).
getPerformance(a) ==
    [initialValue |-> InitialPortfolio, currentValue |-> a.portfolio,
     totalGasCosts |-> SumGasCost(a.transactions),
     transactionCount |-> Len(a.transactions)]

\* A filter that loses the first candidate that passes.
filterByConstraints_DropsFirst(c, strategies) ==
    LET Passes(s) ==
            \/ c = NoConstraints
            \/ /\ RiskIndexOf(s.risk) <= RiskIndexOf(c.riskTolerance)
               /\ \/ c.allowedChains = {}
                  \/ \E n \in s.networks : ToLowerCase(n) \in c.allowedChains
               /\ \/ c.preferredProtocols = {}
                  \/ \E p \in s.protocols : p \in c.preferredProtocols
        kept == SelectSeq(strategies, Passes)
    IN  IF kept = <<>> THEN <<>> ELSE Tail(kept)

\* private filterByConstraints(strategies)
filterByConstraints(c, strategies) ==
    IF c = NoConstraints THEN strategies
    ELSE LET maxIdx == RiskIndexOf(c.riskTolerance)
             Passes(s) ==
                 /\ RiskIndexOf(s.risk) <= maxIdx
                 /\ \/ c.allowedChains = {}
                    \/ \E n \in s.networks : ToLowerCase(n) \in c.allowedChains
                 /\ \/ c.preferredProtocols = {}
                    \/ \E p \in s.protocols : p \in c.preferredProtocols
         IN  SelectSeq(strategies, Passes)

\* A score that favours the strategy the agent holds at the time of the run.
numericScore_FavoursCurrent(a, s, gasGwei) ==
    s.expectedAPY - gasGwei * GAS_PENALTY_PER_GWEI - RISK_PENALTY(s.risk) + a.bias
        + (IF s.name = a.currentStrategy THEN 5000 ELSE 0)

\* private numericScore(s, gasGwei)
numericScore(a, s, gasGwei) ==
    s.expectedAPY - gasGwei * GAS_PENALTY_PER_GWEI - RISK_PENALTY(s.risk) + a.bias

\* private adjustForGas(apy, gasGwei)
adjustForGas(a, apy, gasGwei) ==
    LET base == IF apy # UndefinedNum THEN apy ELSE a.currentAPY
    IN  Max(0, base - gasGwei * GAS_PENALTY_PER_GWEI)

\* Array.prototype.sort((a, b) => b.score - a.score): stable, descending by score.
RECURSIVE InsertByScore(_, _)
InsertByScore(sorted, x) ==
    IF sorted = <<>> THEN <<x>>
    ELSE IF Head(sorted).score >= x.score
         THEN <<Head(sorted)>> \o InsertByScore(Tail(sorted), x)
         ELSE <<x>> \o sorted

\* A sort that leaves the list in catalog order.
SortByScore_KeepsCatalogOrder(xs) == xs

RECURSIVE SortByScore(_)
SortByScore(xs) ==
    IF xs = <<>> THEN <<>>
    ELSE InsertByScore(SortByScore(SubSeq(xs, 1, Len(xs) - 1)), xs[Len(xs)])

\* Array.prototype.find: the first element that passes, as a sequence of 0 or 1.
FindFirst(xs, Test(_)) ==
    LET hits == SelectSeq(xs, Test) IN IF hits = <<>> THEN <<>> ELSE <<Head(hits)>>

\* private fallbackStrategy()
fallbackStrategy ==
    [name |-> "Simple weETH Holding", expectedAPY |-> BASE_WEETH_APY, risk |-> "LOW",
     protocols |-> {"EtherFi"}, networks |-> {"ethereum"}, steps |-> 3, leverageText |-> 0]

\* A chooser that answers with its default pick when the oracle call fails.
askClaudeToChoose_SwallowsError(candidates, answer) ==
    LET default == [strategyName |-> IF candidates = <<>> THEN "Simple weETH Holding"
                                                        ELSE candidates[1].name,
                    expectedAPY |-> UndefinedNum, reasoning |-> UndefinedStr]
    IN  IF answer.kind = "error" \/ answer.json # "object"
           \/ answer.strategyName \in {UndefinedStr, ""}
        THEN [threw |-> FALSE, pick |-> default]
        ELSE [threw |-> FALSE,
              pick |-> [strategyName |-> answer.strategyName,
                        expectedAPY |-> answer.expectedAPY,
                        reasoning |-> answer.reasoning]]

\* private askClaudeToChoose(candidates, marketData), given the oracle's answer:
\* the pick, or threw |-> TRUE when the call fails.
askClaudeToChoose(candidates, answer) ==
    LET default == [strategyName |-> IF candidates = <<>> THEN "Simple weETH Holding"
                                                        ELSE candidates[1].name,
                    expectedAPY |-> UndefinedNum, reasoning |-> UndefinedStr]
    IN  IF answer.kind = "error" THEN [threw |-> TRUE, pick |-> default]
        ELSE IF answer.json # "object" THEN [threw |-> FALSE, pick |-> default]
        ELSE IF answer.strategyName \in {UndefinedStr, ""} THEN [threw |-> FALSE, pick |-> default]
        ELSE [threw |-> FALSE,
              pick |-> [strategyName |-> answer.strategyName,
                        expectedAPY |-> answer.expectedAPY,
                        reasoning |-> answer.reasoning]]

\* The decision record; protocols, risk and confidence are left out where the code
\* leaves them out.
MkDecision(strategy, reasoning, expectedAPY, protocols, risk) ==
    [strategy |-> strategy, action |-> strategy, reasoning |-> reasoning,
     expectedAPY |-> expectedAPY, protocols |-> protocols, risk |-> risk]

\* makeDecision: eligible.map(score, adjAPY).sort(by score, descending).
scoreAndSort(a, eligible, gasGwei) ==
    SortByScore([i \in 1 .. Len(eligible) |->
                    [s |-> eligible[i],
                     score |-> numericScore(a, eligible[i], gasGwei),
                     adjAPY |-> adjustForGas(a, eligible[i].expectedAPY, gasGwei)]])

\* A match that takes the oracle's word: whatever it names is the choice.
matchPick_TrustsOracle(top, asked) ==
    IF asked.threw THEN <<>>
    ELSE <<[s |-> [name |-> asked.pick.strategyName, expectedAPY |-> BASE_WEETH_APY,
                   protocols |-> {}, risk |-> "MEDIUM"]]>>

\* makeDecision: top.find(t => normalize(t.s.name) === normalize(claudePick.strategyName)),
\* nothing when the oracle call threw.
matchPick(top, asked) ==
    IF asked.threw THEN <<>>
    ELSE FindFirst(top, LAMBDA t : normalize(t.s.name) = normalize(asked.pick.strategyName))

\* makeDecision(marketData) of the hybrid agent, given what the catalog fetch and
\* the oracle do in this cycle: the agent and the limiter after the call, and
\* what the call did (path, oracle calls, the ledger steps run, the decision).
makeDecision(a, lim, now, marketData, fetch, answer) ==
    LET c == a.constraints
        gas == marketData.gasPrice
    IN  IF c # NoConstraints /\ (gas < c.minGasPrice \/ gas > c.maxGasPrice)
        THEN LET hold == MkDecision(a.currentStrategy, "Holding: gas outside range",
                                    a.currentAPY, {}, c.riskTolerance)
             IN  [agent |-> executeDecision(a, hold, marketData), limiter |-> lim,
                  path |-> "gas-hold", threw |-> FALSE, fetched |-> FALSE,
                  limiterAsked |-> FALSE, limiterGranted |-> FALSE, oracleCalls |-> 0,
                  top |-> <<>>, eligible |-> {}, ledgerSteps |-> 1, decision |-> hold]
        ELSE IF fetch.threw
        THEN LET fallback == MkDecision(a.currentStrategy,
                                        "API error, maintaining current position",
                                        a.currentAPY, {}, UndefinedStr)
             IN  [agent |-> executeDecision(a, fallback, marketData), limiter |-> lim,
                  path |-> "caught", threw |-> FALSE, fetched |-> TRUE,
                  limiterAsked |-> FALSE, limiterGranted |-> FALSE, oracleCalls |-> 0,
                  top |-> <<>>, eligible |-> {}, ledgerSteps |-> 1, decision |-> fallback]
        ELSE LET eligible == filterByConstraints(c, fetch.topStrategies)
                 scored == scoreAndSort(a, eligible, gas)
                 top == SubSeq(scored, 1, Min(TopN, Len(scored)))
                 bestNumeric == IF top # <<>> THEN top[1]
                                ELSE [s |-> fallbackStrategy, score |-> UndefinedNum,
                                      adjAPY |-> a.currentAPY]
                 numericReason == "Selected by numeric score respecting constraints"
                 taken == take(lim, now)
                 asked == IF taken.ok
                          THEN askClaudeToChoose([i \in 1 .. Len(top) |-> top[i].s], answer)
                          ELSE [threw |-> TRUE]
                 matched == matchPick(top, asked)
                 chosen == IF matched # <<>> THEN matched[1].s ELSE bestNumeric.s
                 chosenAPY ==
                     IF matched # <<>>
                     THEN adjustForGas(a, NullishNum(asked.pick.expectedAPY,
                                                     matched[1].s.expectedAPY), gas)
                     ELSE bestNumeric.adjAPY
                 chosenReason ==
                     IF asked.threw THEN numericReason
                     ELSE IF matched # <<>>
                          THEN NullishStr(asked.pick.reasoning, "Chosen by Claude reasoning.")
                          ELSE NullishStr(asked.pick.reasoning, numericReason)
                 decision == MkDecision(chosen.name, chosenReason, chosenAPY,
                                        chosen.protocols, chosen.risk)
             IN  [agent |-> executeDecision(a, decision, marketData), limiter |-> taken.lim,
                  path |-> "decided", threw |-> FALSE, fetched |-> TRUE,
                  limiterAsked |-> TRUE, limiterGranted |-> taken.ok,
                  oracleCalls |-> IF taken.ok THEN 1 ELSE 0,
                  top |-> [i \in 1 .. Len(top) |-> top[i].s.name],
                  eligible |-> {eligible[i].name : i \in DOMAIN eligible},
                  ledgerSteps |-> 1, decision |-> decision]

(***************************************************************************)
(* SpecHybrid: one hybrid agent fed the market ticks of days 0, 1, 2, ...  *)
(* in order, while the wall clock advances and other cycles of the process *)
(* draw on the shared limiter.                                             *)
(***************************************************************************)
\* The constraints an agent may be built with.
NarrowConstraints ==
    [maxLeverage |-> 3, allowedChains |-> {"ethereum", "base"}, riskTolerance |-> "MEDIUM",
     minGasPrice |-> 20, maxGasPrice |-> 40, preferredProtocols |-> {}]
WideConstraints ==
    [maxLeverage |-> 5, allowedChains |-> {}, riskTolerance |-> "HIGH",
     minGasPrice |-> 0, maxGasPrice |-> 200, preferredProtocols |-> {"EtherFi"}]
HybridConstraints == {NoConstraints, NarrowConstraints, WideConstraints}

\* The catalog snapshots the ledger-keeping agents are fed.
LedgerCatalogs ==
    {<<>>, <<AaveLoop, MerklBoost>>, <<Aggressive, AaveLoop, SimpleHolding>>}

\* What findAllStrategies() does in a cycle: it throws, or returns a catalog.
HybridFetches ==
    {[threw |-> TRUE, topStrategies |-> <<>>]}
      \cup {[threw |-> FALSE, topStrategies |-> q] : q \in LedgerCatalogs}

\* What the oracle does when it is asked to choose: the call fails, or it returns
\* a text with no JSON, with malformed JSON, or with a JSON object.
ChooserAnswer(kind, json, strategyName, expectedAPY, reasoning) ==
    [kind |-> kind, json |-> json, strategyName |-> strategyName,
     expectedAPY |-> expectedAPY, reasoning |-> reasoning]
ChooserAnswers ==
    {ChooserAnswer("error", "none", UndefinedStr, UndefinedNum, UndefinedStr),
     ChooserAnswer("text", "none", UndefinedStr, UndefinedNum, UndefinedStr),
     ChooserAnswer("text", "malformed", UndefinedStr, UndefinedNum, UndefinedStr),
     ChooserAnswer("text", "object", "", 9000, "Oracle reasoning"),
     ChooserAnswer("text", "object", "AAVE LOOP X5 (ETHEREUM)", 9000, "Oracle reasoning"),
     ChooserAnswer("text", "object", "AAVE LOOP X5 (ETHEREUM)", 0, "Oracle reasoning"),
     ChooserAnswer("text", "object", " simple weeth holding ", UndefinedNum, UndefinedStr),
     ChooserAnswer("text", "object", "Unlisted Vault ", UndefinedNum, "Oracle reasoning"),
     ChooserAnswer("text", "object", "Unlisted Vault ", 9000, UndefinedStr)}

InitHybrid ==
    /\ clock = 0
    /\ globalLimiter = NewRateLimiter(LimiterCapacity, IntervalTicks, 0)
    /\ grants = <<>>
    /\ InitIdleBucket
    /\ \E k \in HybridConstraints : agent = NewHybridAgent("Agent 1", k)
    /\ cycle = NoCycle

\* Another agent's cycle takes a token of the shared limiter.
HybridOtherTake ==
    /\ \E t \in {take(globalLimiter, clock)} :
          /\ globalLimiter' = t.lim
          /\ grants' = IF t.ok THEN Append(grants, clock) ELSE grants
    /\ UNCHANGED <<clock, bucketVars, agentVars>>

\* The agent's makeDecision(marketData) for the next day's tick.
HybridMakeDecision ==
    /\ simDay <= MaxLedgerDay
    /\ \E gas \in LedgerGasPrices, fetch \in HybridFetches, answer \in ChooserAnswers :
       \E r \in {makeDecision(agent, globalLimiter, clock,
                                MarketTick(simDay, gas, "NEUTRAL"), fetch, answer)} :
              /\ agent' = r.agent
              /\ globalLimiter' = r.limiter
              /\ grants' = IF r.limiterGranted THEN Append(grants, clock) ELSE grants
              /\ cycle' = [path |-> r.path, day |-> simDay, gasPrice |-> gas,
                           threw |-> r.threw, fetchThrew |-> fetch.threw,
                           fetched |-> r.fetched,
                           oracleFailure |->
                               IF r.oracleCalls = 0 THEN "none"
                               ELSE IF answer.kind = "error" THEN "call"
                               ELSE IF answer.json = "malformed" THEN "parse"
                               ELSE "none",
                           limiterAsked |-> r.limiterAsked,
                           limiterGranted |-> r.limiterGranted,
                           oracleCalls |-> r.oracleCalls,
                           picked |-> IF r.oracleCalls > 0 /\ answer.kind = "text"
                                         /\ answer.json = "object"
                                      THEN answer.strategyName ELSE UndefinedStr,
                           topPick |-> IF r.top = <<>> THEN UndefinedStr ELSE r.top[1],
                           shown |-> {r.top[i] : i \in DOMAIN r.top},
                           eligible |-> r.eligible,
                           ledgerSteps |-> r.ledgerSteps,
                           prevStrategy |-> agent.currentStrategy,
                           prevAPY |-> agent.currentAPY,
                           prevPortfolio |-> agent.portfolio,
                           decision |-> r.decision]
    /\ simDay' = simDay + 1
    /\ UNCHANGED <<clock, claudeBucket, dayGrants>>

NextHybrid == HybridOtherTake \/ HybridMakeDecision

SpecHybrid == InitHybrid /\ [][NextHybrid]_vars

(***************************************************************************)
(* The oracle-driven agent (part_006): the oracle chooses the strategy;    *)
(* a throttled call is retried once.                                       *)
(***************************************************************************)
\* constructor(config): this.currentAPY = 3.0
NewOracleAgent(name, constraints) ==
    [name |-> name, portfolio |-> InitialPortfolio, transactions |-> <<>>,
     currentStrategy |-> "Simple weETH Holding", currentAPY |-> BASE_WEETH_APY,
     constraints |-> constraints]

\* `x || y` on numbers: undefined and 0 are falsy.
OrNum(x, y) == IF x = UndefinedNum \/ x = 0 THEN y ELSE x

\* private executeDecision(decision, marketData) of part_006: as the hybrid
\* agent's, but the new APY is `decision.expectedAPY || this.currentAPY`.
executeDecisionOracle(a, decision, marketData) ==
    LET newStrategy == OrStr(decision.strategy, a.currentStrategy)
        newAPY      == OrNum(decision.expectedAPY, a.currentAPY)
        isChanging  == newStrategy # a.currentStrategy
        gasCost     == IF isChanging THEN marketData.gasPrice * 3 ELSE 0
        afterGas    == a.portfolio - gasCost
        after       == afterGas + DailyYield(afterGas, newAPY)
        tx == [day |-> marketData.day, action |-> newStrategy,
               reasoning |-> OrStr(decision.reasoning, "No reasoning provided"),
               portfolioBefore |-> a.portfolio, portfolioAfter |-> after,
               gasCost |-> gasCost]
    IN  [a EXCEPT !.portfolio = after,
                  !.transactions = Append(@, tx),
                  !.currentStrategy = newStrategy,
                  !.currentAPY = newAPY]

\* private parseDecision(response) of part_006: never throws.
parseDecisionOracle(a, answer) ==
    IF answer.json = "object"
    THEN MkDecision(OrStr(answer.strategyName, a.currentStrategy),
                    OrStr(answer.reasoning, "No reasoning provided"),
                    OrNum(answer.expectedAPY, a.currentAPY), {}, "MEDIUM")
    ELSE MkDecision(a.currentStrategy, "Unable to parse decision, maintaining position",
                    a.currentAPY, {}, UndefinedStr)

\* Number(text) of a text that is not a number (a retry-after header may carry an
\* HTTP date instead of a count of seconds).
NaNNum == 0 - 2000000

\* The sleep before the retry: Math.max(retryAfter * 1000, 16000) ms, retryAfter
\* = Number(the retry-after header ?? "60").  Math.max of NaN is NaN, and a timer
\* set to NaN ms fires after 1 ms.
RetrySleepMs(answer) ==
    LET retryAfter == NullishNum(answer.retryAfter, 60)
    IN  IF retryAfter = NaNNum THEN 1 ELSE Max(retryAfter * 1000, 16000)

\* makeDecision(marketData) of the oracle-driven agent, given what the catalog
\* fetch, the oracle call and (after a 429) its retry do in this cycle.
makeDecisionOracle(a, marketData, fetch, first, second) ==
    LET c == a.constraints
        gas == marketData.gasPrice
        fallbackDecision == MkDecision(a.currentStrategy,
                                       "API error, maintaining current position",
                                       UndefinedNum, {}, UndefinedStr)
        Caught(calls, slept) ==
            [agent |-> executeDecisionOracle(a, fallbackDecision, marketData),
             path |-> "caught", threw |-> FALSE, fetched |-> TRUE,
             oracleCalls |-> calls, sleptMs |-> slept, decision |-> fallbackDecision]
        Answered(answer, calls, slept) ==
            LET decision == parseDecisionOracle(a, answer)
            IN  [agent |-> executeDecisionOracle(a, decision, marketData),
                 path |-> "decided", threw |-> FALSE, fetched |-> TRUE,
                 oracleCalls |-> calls, sleptMs |-> slept, decision |-> decision]
    IN  IF c # NoConstraints /\ (gas < c.minGasPrice \/ gas > c.maxGasPrice)
        THEN [agent |-> a, path |-> "gas-hold", threw |-> FALSE, fetched |-> FALSE,
              oracleCalls |-> 0, sleptMs |-> 0,
              decision |-> MkDecision(a.currentStrategy, "Gas price outside my allowed range",
                                      a.currentAPY, {}, UndefinedStr)]
        ELSE IF fetch.threw THEN Caught(0, 0)
        ELSE IF first.kind = "text" THEN Answered(first, 1, 0)
        ELSE IF first.kind = "error429"
             THEN IF second.kind = "text"
                  THEN Answered(second, 2, RetrySleepMs(first))
                  ELSE Caught(2, RetrySleepMs(first))
        ELSE Caught(1, 0)

(***************************************************************************)
(* SpecOracle: one oracle-driven agent fed the market ticks of days        *)
(* 0, 1, 2, ... in order.                                                  *)
(***************************************************************************)
\* What one oracle call does: it fails with a 429 (with or without a retry-after
\* header), fails otherwise, or returns a text.
OracleAnswer(kind, retryAfter, json, strategyName, expectedAPY, reasoning) ==
    [kind |-> kind, retryAfter |-> retryAfter, json |-> json, strategyName |-> strategyName,
     expectedAPY |-> expectedAPY, reasoning |-> reasoning]
OracleAnswers ==
    {OracleAnswer("error429", UndefinedNum, "none", UndefinedStr, UndefinedNum, UndefinedStr),
     OracleAnswer("error429", 5, "none", UndefinedStr, UndefinedNum, UndefinedStr),
     OracleAnswer("error429", 30, "none", UndefinedStr, UndefinedNum, UndefinedStr),
     OracleAnswer("error429", NaNNum, "none", UndefinedStr, UndefinedNum, UndefinedStr),
     OracleAnswer("error", UndefinedNum, "none", UndefinedStr, UndefinedNum, UndefinedStr),
     OracleAnswer("text", UndefinedNum, "none", UndefinedStr, UndefinedNum, UndefinedStr),
     OracleAnswer("text", UndefinedNum, "object", "Aave Loop x5 (Ethereum)", 7000, "Oracle reasoning"),
     OracleAnswer("text", UndefinedNum, "object", "Aave Loop x5 (Ethereum)", 0, UndefinedStr),
     OracleAnswer("text", UndefinedNum, "object", UndefinedStr, 9000, "Oracle reasoning"),
     OracleAnswer("text", UndefinedNum, "object", "Simple weETH Holding", UndefinedNum, "")}

InitOracle ==
    /\ clock = 0
    /\ globalLimiter = NewRateLimiter(LimiterCapacity, IntervalTicks, 0)
    /\ grants = <<>>
    /\ InitIdleBucket
    /\ \E k \in HybridConstraints : agent = NewOracleAgent("Agent 1", k)
    /\ cycle = NoCycle

\* The agent's makeDecision(marketData) for the next day's tick.
OracleMakeDecision ==
    /\ simDay <= MaxLedgerDay
    /\ \E gas \in LedgerGasPrices, fetch \in HybridFetches, first \in OracleAnswers,
          second \in OracleAnswers :
          \E r \in {makeDecisionOracle(agent, MarketTick(simDay, gas, "NEUTRAL"), fetch, first, second)} :
              /\ agent' = r.agent
              /\ cycle' = [path |-> r.path, day |-> simDay,
                           threw |-> r.threw, fetchThrew |-> fetch.threw,
                           fetched |-> r.fetched,
                           oracleCalls |-> r.oracleCalls, sleptMs |-> r.sleptMs,
                           firstKind |-> IF r.oracleCalls >= 1 THEN first.kind ELSE "none",
                           retryAfter |-> IF r.oracleCalls >= 2 THEN first.retryAfter
                                          ELSE UndefinedNum,
                           secondKind |-> IF r.oracleCalls >= 2 THEN second.kind ELSE "none",
                           prevLedger |-> Len(agent.transactions),
                           prevStrategy |-> agent.currentStrategy,
                           prevAPY |-> agent.currentAPY,
                           prevPortfolio |-> agent.portfolio,
                           decision |-> r.decision]
    /\ simDay' = simDay + 1
    /\ UNCHANGED <<clock, limiterVars, claudeBucket, dayGrants>>

NextOracle == OracleMakeDecision

SpecOracle == InitOracle /\ [][NextOracle]_vars

(***************************************************************************)
(* The catalog-keyed agent (lib/agents/strategy-agent.ts): the oracle      *)
(* names a key of the built-in catalog and a leverage.                     *)
(***************************************************************************)
\* ETHERFI_STRATEGIES (APYs in thousandths of a percent; 0 where a field is absent).
ETHERFI_STRATEGIES ==
    [SIMPLE_STAKE   |-> [type |-> "SIMPLE", baseAPY |-> 3000, borrowAPY |-> 0, lendAPY |-> 0,
                         maxLeverage |-> 1, gasMultiplier |-> 0],
     AAVE_LOOP_2X   |-> [type |-> "LOOP", baseAPY |-> 3000, borrowAPY |-> 2000, lendAPY |-> 0,
                         maxLeverage |-> 2, gasMultiplier |-> 2],
     AAVE_LOOP_5X   |-> [type |-> "LOOP", baseAPY |-> 3000, borrowAPY |-> 2000, lendAPY |-> 0,
                         maxLeverage |-> 5, gasMultiplier |-> 5],
     AAVE_LOOP_10X  |-> [type |-> "LOOP", baseAPY |-> 3000, borrowAPY |-> 2000, lendAPY |-> 0,
                         maxLeverage |-> 10, gasMultiplier |-> 10],
     AAVE_PYUSD     |-> [type |-> "BORROW_LEND", baseAPY |-> 3000, borrowAPY |-> 5000,
                         lendAPY |-> 12000, maxLeverage |-> 3, gasMultiplier |-> 4],
     AAVE_RLUSD     |-> [type |-> "BORROW_LEND", baseAPY |-> 3000, borrowAPY |-> 4500,
                         lendAPY |-> 11000, maxLeverage |-> 3, gasMultiplier |-> 4],
     AGGRESSIVE_MIX |-> [type |-> "BORROW_LEND", baseAPY |-> 3000, borrowAPY |-> 3000,
                         lendAPY |-> 15000, maxLeverage |-> 5, gasMultiplier |-> 8]]

\* Names every object literal answers to besides its own keys: the members of
\* Object.prototype (a function or an object each, hence truthy).
ObjectPrototypeKeys == {"constructor", "toString", "__proto__"}

\* ETHERFI_STRATEGIES[key] is truthy: the catalog is an object literal, so the
\* lookup finds its own keys and the inherited ones.
IsStrategyKey(key) == key \in DOMAIN ETHERFI_STRATEGIES \cup ObjectPrototypeKeys

\* calculateStrategyYield(strategy, leverage, gasPrice, portfolioSize): the gas cost
\* in millionths of an ETH (2 per gwei and transaction), the APYs in thousandths
\* of a percent.
calculateStrategyYield(strategy, leverage, gasPrice, portfolioSize) ==
    IF strategy.maxLeverage = UndefinedNum
    THEN \* no Strategy at all: Math.min(leverage, undefined) is NaN, and so are the
         \* gas cost and the net APY
         [grossAPY |-> 0, gasCost |-> NaNNum, netAPY |-> NaNNum]
    ELSE
    LET lev == Min(leverage, strategy.maxLeverage)
        grossAPY ==
            CASE strategy.type = "SIMPLE" -> strategy.baseAPY
              [] strategy.type = "LOOP" -> (strategy.baseAPY - strategy.borrowAPY) * lev
              [] strategy.type = "BORROW_LEND" ->
                    strategy.baseAPY + (strategy.lendAPY - strategy.borrowAPY) * (lev - 1)
              [] OTHER -> 0
        totalGasCost == (gasPrice * 2 * strategy.gasMultiplier * lev) \div strategy.maxLeverage
        annualizedGasCost == (totalGasCost * 12000) \div portfolioSize
    IN  [grossAPY |-> grossAPY, gasCost |-> totalGasCost,
         netAPY |-> IF portfolioSize = NaNNum THEN NaNNum ELSE grossAPY - annualizedGasCost]

\* constructor(config)
NewCatalogAgent(name) ==
    [name |-> name, portfolio |-> InitialPortfolio, transactions |-> <<>>,
     currentStrategy |-> "SIMPLE_STAKE", currentLeverage |-> 1]

\* private parseDecision(response): the parsed object, its strategy replaced by the
\* current one when it is no key of the catalog; the keep-current decision when
\* the response holds no JSON object.
parseDecisionCatalog(a, answer) ==
    IF answer.json = "object"
    THEN [strategy |-> IF IsStrategyKey(answer.strategy) THEN answer.strategy
                       ELSE a.currentStrategy,
          leverage |-> answer.leverage, reasoning |-> answer.reasoning]
    ELSE [strategy |-> a.currentStrategy, leverage |-> a.currentLeverage,
          reasoning |-> "Unable to parse decision, maintaining position"]

\* private executeDecision(decision, marketData)
executeDecisionCatalog(a, decision, marketData) ==
    LET strategyKey == OrStr(decision.strategy, a.currentStrategy)
        leverage == IF decision.leverage \in {UndefinedNum, 0} THEN a.currentLeverage
                    ELSE decision.leverage
        strategy == IF strategyKey \in DOMAIN ETHERFI_STRATEGIES
                    THEN ETHERFI_STRATEGIES[strategyKey]
                    ELSE \* a member of Object.prototype: none of a Strategy's fields
                         [type |-> UndefinedStr, baseAPY |-> UndefinedNum, borrowAPY |-> 0,
                          lendAPY |-> 0, maxLeverage |-> UndefinedNum,
                          gasMultiplier |-> UndefinedNum]
    IN  IF ~IsStrategyKey(strategyKey) THEN a
        ELSE LET yields == calculateStrategyYield(strategy, leverage,
                                                  marketData.gasPrice, a.portfolio)
                 isChanging == strategyKey # a.currentStrategy \/ leverage # a.currentLeverage
                 gasCost == IF isChanging THEN yields.gasCost ELSE 0
                 afterGas == IF a.portfolio = NaNNum \/ gasCost = NaNNum THEN NaNNum
                             ELSE a.portfolio - gasCost
                 after == IF afterGas = NaNNum \/ yields.netAPY = NaNNum THEN NaNNum
                          ELSE afterGas + DailyYield(afterGas, yields.netAPY)
                 tx == [day |-> marketData.day, action |-> strategyKey,
                        reasoning |-> OrStr(decision.reasoning, "No reasoning provided"),
                        portfolioBefore |-> a.portfolio, portfolioAfter |-> after,
                        gasCost |-> gasCost]
             IN  [a EXCEPT !.portfolio = after,
                           !.transactions = Append(@, tx),
                           !.currentStrategy = strategyKey,
                           !.currentLeverage = leverage]

\* makeDecision(marketData), given what the oracle does in this cycle.
makeDecisionCatalog(a, marketData, answer) ==
    IF answer.kind = "error"
    THEN LET fallbackDecision ==
                 [strategy |-> a.currentStrategy, leverage |-> a.currentLeverage,
                  reasoning |-> "API error, maintaining current position"]
         IN  [agent |-> executeDecisionCatalog(a, fallbackDecision, marketData),
              path |-> "caught", decision |-> fallbackDecision]
    ELSE LET decision == parseDecisionCatalog(a, answer)
         IN  [agent |-> executeDecisionCatalog(a, decision, marketData),
              path |-> "decided", decision |-> decision]

(***************************************************************************)
(* SpecCatalog: one catalog-keyed agent fed the ticks of days 0, 1, ...    *)
(***************************************************************************)
CatalogAnswer(kind, json, strategy, leverage, reasoning) ==
    [kind |-> kind, json |-> json, strategy |-> strategy, leverage |-> leverage,
     reasoning |-> reasoning]
CatalogAnswers ==
    {CatalogAnswer("error", "none", UndefinedStr, UndefinedNum, UndefinedStr),
     CatalogAnswer("text", "none", UndefinedStr, UndefinedNum, UndefinedStr),
     CatalogAnswer("text", "object", UndefinedStr, UndefinedNum, UndefinedStr),
     CatalogAnswer("text", "object", "Aave Loop 5x", 3, "loop"),
     CatalogAnswer("text", "object", "constructor", 2, "pick")}
        \cup {CatalogAnswer("text", "object", k, l, "pick") :
                 k \in {"SIMPLE_STAKE", "AAVE_LOOP_5X", "AAVE_PYUSD"}, l \in {UndefinedNum, 2, 5}}

InitCatalog ==
    /\ clock = 0
    /\ globalLimiter = NewRateLimiter(LimiterCapacity, IntervalTicks, 0)
    /\ grants = <<>>
    /\ InitIdleBucket
    /\ agent = NewCatalogAgent("Agent 1")
    /\ cycle = NoCycle

\* The agent's makeDecision(marketData) for the next day's tick.
CatalogMakeDecision ==
    /\ simDay <= MaxLedgerDay
    /\ \E gas \in LedgerGasPrices, answer \in CatalogAnswers :
       \E r \in {makeDecisionCatalog(agent, MarketTick(simDay, gas, "NEUTRAL"), answer)} :
          /\ agent' = r.agent
          /\ cycle' = [path |-> r.path, day |-> simDay,
                       prevStrategy |-> agent.currentStrategy,
                       prevLeverage |-> agent.currentLeverage,
                       decision |-> r.decision]
    /\ simDay' = simDay + 1
    /\ UNCHANGED <<clock, limiterVars, claudeBucket, dayGrants>>

NextCatalog == CatalogMakeDecision

SpecCatalog == InitCatalog /\ [][NextCatalog]_vars

(***************************************************************************)
(* The validating agent (part_004): decide() filters and scores the        *)
(* catalog, asks the oracle to approve the top candidate if the day-scoped *)
(* budget allows, and resolves the verdict.  It keeps no ledger.           *)
(***************************************************************************)
\* FALLBACK_MODELS
FALLBACK_MODELS ==
    <<"claude-3-5-sonnet-20241022", "claude-3-5-haiku-20241022",
      "claude-3-sonnet-20240229", "claude-3-haiku-20240307">>

\* this.lastChosen left undefined.
NoOption == [none |-> TRUE]
\* claudeValidatePick returned null.
NoVerdict == [none |-> TRUE]

\* constructor(cfg): anthropicModel and enableClaudeValidation default to
\* "claude-3-sonnet-20240229" and true; hasKey is whether the process
\* environment holds ANTHROPIC_API_KEY.
NewValidatingAgent(id, constraints, enableClaudeValidation, hasKey) ==
    [id |-> id, constraints |-> constraints,
     anthropicModel |-> "claude-3-sonnet-20240229",
     enableClaudeValidation |-> enableClaudeValidation, hasKey |-> hasKey,
     lastChosen |-> NoOption, lastAPY |-> UndefinedNum]

\* getCurrentStrategy(): the name and the APY.
getCurrentStrategy(a) ==
    [strategy |-> IF a.lastChosen = NoOption THEN "HOLD" ELSE a.lastChosen.name,
     apy |-> NullishNum(a.lastAPY, 0)]

\* A window that leaves its two bounds outside.
withinGasWindow_Exclusive(gwei, min, max) == gwei > min /\ gwei < max

\* withinGasWindow(gwei, min, max)
withinGasWindow(gwei, min, max) == gwei >= min /\ gwei <= max

\* riskRank(r)
riskRank(r) ==
    CASE r = "LOW" -> 0 [] r = "MEDIUM" -> 1 [] r = "HIGH" -> 2 [] r = "EXTREME" -> 3 [] OTHER -> 2

\* clamp(n, lo, hi)
clamp(n, lo, hi) == Max(lo, Min(hi, n))

\* estimateGasBps(steps, gasGwei) = (gasGwei / 20) * 5 * max(1, steps) basis points,
\* here in tenths of a basis point (thousandths of a percent).
estimateGasBps(steps, gasGwei) == (gasGwei * Max(1, steps) * 5) \div 2

\* inferLeverageFromText(opt): the figure the text carries, 1 when it carries none.
inferLeverageFromText(opt) == IF opt.leverageText > 0 THEN opt.leverageText ELSE 1

\* effectiveAPYPercent(opt, market, agentMaxLev, preferEfficiency)
effectiveAPYPercent(opt, market, agentMaxLev, preferEfficiency) ==
    LET implied == inferLeverageFromText(opt)
        lev == clamp(implied, 1, Max(1, agentMaxLev))
        over == IF implied > lev THEN (implied - lev) * 750 ELSE 0
        stepPenalty == IF preferEfficiency THEN Max(0, opt.steps - 3) * 250 ELSE 0
    IN  opt.expectedAPY - over - estimateGasBps(opt.steps, market.gasPrice) - stepPenalty

\* stabilityPenalty(opt, tolerance, preferStability)
stabilityPenalty(opt, tolerance, preferStability) ==
    LET diff == riskRank(opt.risk) - riskRank(tolerance) IN
    IF ~preferStability THEN 0 ELSE IF diff > 0 THEN diff * 750 ELSE 0

\* contrarianNudge(market, preferContrarian): 0.25 when the trend or the sentiment
\* reads bull, bear, greed, fear or extreme.
contrarianNudge(market, preferContrarian) ==
    IF ~preferContrarian THEN 0
    ELSE IF market.sentiment \in {"FEAR", "GREED"} THEN 250 ELSE 0

\* Math.abs
Abs(x) == IF x < 0 THEN 0 - x ELSE x

\* Number(x.toFixed(2)): to the nearest hundredth of a percent.
ToFixed2(x) == IF x >= 0 THEN ((x + 5) \div 10) * 10 ELSE 0 - (((0 - x) + 5) \div 10) * 10

\* wrapDecision(partial)
wrapDecision(strategy, action, reasoning, expectedAPY, protocols) ==
    [strategy |-> strategy, action |-> action, reasoning |-> reasoning,
     expectedAPY |-> NullishNum(expectedAPY, 0), protocols |-> protocols]

\* decide(): the candidate filter (lines 336-354).
decideFilter(c, candidates) ==
    LET allowedChains == {normalize(n) : n \in c.allowedChains}
        preferredProtocols == {normalize(p) : p \in c.preferredProtocols}
        Passes(opt) ==
            /\ \/ opt.networks = {}
               \/ \E net \in opt.networks : normalize(net) \in allowedChains
            /\ preferredProtocols # {} =>
                  \E p \in opt.protocols : normalize(p) \in preferredProtocols
            /\ ~(riskRank(opt.risk) - riskRank(c.riskTolerance) > 1)
    IN  SelectSeq(candidates, Passes)

\* decide(): the scored list, sorted (lines 366-379).
decideScore(c, filtered, market) ==
    SortByScore([i \in 1 .. Len(filtered) |->
        LET net == effectiveAPYPercent(filtered[i], market, c.maxLeverage, c.preferEfficiency)
        IN  [opt |-> filtered[i], netAPY |-> net,
             score |-> net - stabilityPenalty(filtered[i], c.riskTolerance, c.preferStability)
                           + contrarianNudge(market, c.preferContrarian)]])

\* safeParseClaudeJson(extractFirstText(msg)): the verdict, or null.
safeParseClaudeJson(answer) ==
    IF answer.json = "object" /\ answer.approve \in {"true", "false"}
                              /\ answer.reason # UndefinedStr
    THEN [approve |-> answer.approve = "true", reason |-> answer.reason,
          concerns |-> answer.concerns]
    ELSE NoVerdict

\* A fallback search that may return the rejected candidate again.
FallbackTest_AnyCandidate(s, chosen, c) ==
    /\ Abs(s.netAPY - chosen.netAPY) >= 0
    /\ riskRank(s.opt.risk) <= riskRank(c.riskTolerance) + 1

\* decide(): the test of the alternative search (lines 430-433).
FallbackTest(s, chosen, c) ==
    /\ s.opt.name # chosen.opt.name
    /\ Abs(s.netAPY - chosen.netAPY) > 250
    /\ riskRank(s.opt.risk) <= riskRank(c.riskTolerance) + 1

\* A resolver that takes the absence of a verdict for a rejection.
Approved_AbsenceRejects(verdict) ==
    IF verdict = NoVerdict THEN FALSE ELSE verdict.approve

\* decide(): approved, true unless a verdict says otherwise (lines 385, 409-410).
Approved(verdict) ==
    IF verdict = NoVerdict THEN TRUE ELSE verdict.approve

\* decide() from the verdict on (lines 409-460): the reasoning, the alternative
\* search, the decision and the agent after the call.
decideResolve(a, scored, reasoning, verdict, validated) ==
    LET c == a.constraints
        top == scored[1]
        approved == Approved(verdict)
        r1 == IF ~validated THEN reasoning
              ELSE IF verdict = NoVerdict
                   THEN Append(reasoning, " (Skipped/failed Claude validation.)")
                   ELSE reasoning
                        \o <<IF verdict.approve THEN "Claude: approve" ELSE "Claude: reject">>
                        \o (IF verdict.reason # "" THEN <<"(reason)">> ELSE <<>>)
                        \o (IF verdict.concerns > 0 THEN <<"Concerns">> ELSE <<>>)
        Alt(s) == FallbackTest(s, top, c)
        fallback == FindFirst(scored, Alt)
    IN  IF ~approved /\ fallback = <<>>
        THEN [agent |-> a,
              decision |-> wrapDecision("HOLD", "HOLD",
                               Append(r1, " No safe alternative found. Holding."), 0, {})]
        ELSE LET chosen == IF approved THEN top ELSE fallback[1]
                 r2 == IF approved THEN r1 ELSE Append(r1, " Switching to alternative")
             IN  [agent |-> [a EXCEPT !.lastChosen = chosen.opt, !.lastAPY = chosen.netAPY],
                  decision |-> [strategy |-> chosen.opt.name, action |-> "ENTER_OR_MAINTAIN",
                                reasoning |-> r2, expectedAPY |-> ToFixed2(chosen.netAPY),
                                protocols |-> chosen.opt.protocols]]

\* decide(market) up to the validator call (lines 314-407), given what the catalog
\* fetch does: the call either ends here (done) or waits for the oracle.
decideBegin(a, bucket, now, market, fetch) ==
    LET c == a.constraints
        Ended(path, agentAfter, bucketAfter, decision, asked, granted, scored) ==
            [done |-> TRUE, threw |-> FALSE, path |-> path, agent |-> agentAfter,
             bucket |-> bucketAfter, decision |-> decision, budgetAsked |-> asked,
             budgetGranted |-> granted, scored |-> scored]
    IN  IF ~withinGasWindow(market.gasPrice, c.minGasPrice, c.maxGasPrice)
        THEN Ended("gas-hold", a, bucket,
                   wrapDecision("HOLD", "HOLD", <<"Gas outside window">>, 0, {}),
                   FALSE, FALSE, <<>>)
        ELSE IF fetch.threw
        THEN [done |-> TRUE, threw |-> TRUE, path |-> "threw", agent |-> a, bucket |-> bucket,
              decision |-> wrapDecision(UndefinedStr, UndefinedStr, <<>>, UndefinedNum, {}),
              budgetAsked |-> FALSE, budgetGranted |-> FALSE, scored |-> <<>>]
        ELSE LET filtered == decideFilter(c, fetch.topStrategies)
                 scored == decideScore(c, filtered, market)
                 reasoning == <<"Picked by math">>
                 wantsValidation == a.enableClaudeValidation
                 consumed == tryConsume(bucket, market.day, now)
             IN  IF filtered = <<>>
                 THEN Ended("no-candidates", a, bucket,
                            wrapDecision("HOLD", "HOLD",
                                <<"No strategies satisfied constraints. Holding position.">>, 0, {}),
                            FALSE, FALSE, <<>>)
                 ELSE IF wantsValidation /\ a.hasKey
                 THEN IF consumed.ok
                      THEN [done |-> FALSE, threw |-> FALSE, path |-> "validating", agent |-> a,
                            bucket |-> consumed.bucket,
                            decision |-> wrapDecision(UndefinedStr, UndefinedStr, reasoning,
                                                      UndefinedNum, {}),
                            budgetAsked |-> TRUE, budgetGranted |-> TRUE, scored |-> scored]
                      ELSE LET r == decideResolve(a, scored,
                                        Append(reasoning,
                                            " Skipped Claude validation due to daily rate limit."),
                                        NoVerdict, FALSE)
                           IN  Ended("decided", r.agent, consumed.bucket, r.decision,
                                     TRUE, FALSE, scored)
                 ELSE LET r == decideResolve(a, scored,
                                   IF wantsValidation
                                   THEN Append(reasoning, " Skipped Claude validation (no API key).")
                                   ELSE reasoning,
                                   NoVerdict, FALSE)
                      IN  Ended("decided", r.agent, bucket, r.decision, FALSE, FALSE, scored)

\* claudeValidatePick: the model list decide() passes (lines 394-397).
ValidatorModels(a) ==
    (IF a.anthropicModel # UndefinedStr THEN <<a.anthropicModel>> ELSE <<>>) \o FALLBACK_MODELS

\* claudeValidatePick, one turn of its loop (lines 264-285): the oracle's answer to
\* the call to models[idx] either ends the validator with a verdict or null, or
\* (a 404 / not-found error) moves it on to the next model.
is404(answer) == answer.status = 404 \/ answer.message = "not_found"

\* A validator that moves on to the next model when an answer yields no verdict.
validatorTurn_SkipsUnusableAnswer(models, idx, answer) ==
    IF answer.kind = "text" /\ safeParseClaudeJson(answer) # NoVerdict
    THEN [done |-> TRUE, verdict |-> safeParseClaudeJson(answer)]
    ELSE IF (answer.kind = "text" \/ is404(answer)) /\ idx < Len(models)
         THEN [done |-> FALSE, verdict |-> NoVerdict]
         ELSE [done |-> TRUE, verdict |-> NoVerdict]

\* One turn of the loop that moves on to the next model after any error.
validatorTurn_ContinuesOnAnyError(models, idx, answer) ==
    IF answer.kind = "text"
    THEN [done |-> TRUE, verdict |-> safeParseClaudeJson(answer)]
    ELSE IF idx < Len(models)
         THEN [done |-> FALSE, verdict |-> NoVerdict]
         ELSE [done |-> TRUE, verdict |-> NoVerdict]

validatorTurn(models, idx, answer) ==
    IF answer.kind = "text"
    THEN [done |-> TRUE, verdict |-> safeParseClaudeJson(answer)]
    ELSE IF is404(answer) /\ idx < Len(models)
         THEN [done |-> FALSE, verdict |-> NoVerdict]
         ELSE [done |-> TRUE, verdict |-> NoVerdict]

(***************************************************************************)
(* SpecDecide: one validating agent deciding for the ticks of days 0, 1,   *)
(* ...; a validator call stays in flight (cycle.path = "validating") until *)
(* the oracle has answered the call to each model the validator tries.     *)
(***************************************************************************)
MerklDai ==
    [name |-> "Merkl Boost: DAI on Morpho (Base)", expectedAPY |-> 6800, risk |-> "LOW",
     protocols |-> {"Morpho", "Merkl", "EtherFi"}, networks |-> {"Base"}, steps |-> 4, leverageText |-> 0]

\* A second loop on the same network: the finder names every WETH-like market's
\* loop after the network only.
AaveLoopWeeth ==
    [name |-> "Aave Loop x5 (Ethereum)", expectedAPY |-> 6000, risk |-> "MEDIUM",
     protocols |-> {"EtherFi", "Aave"}, networks |-> {"Ethereum"}, steps |-> 5, leverageText |-> 5]

\* A loop on a market whose borrow rate is at or above the base yield:
\* leveragedLoopAPY = max(0, (3.0 - borrowAPY) * 5) = 0.
AaveLoopDry ==
    [name |-> "Aave Loop x5 (Arbitrum)", expectedAPY |-> 0, risk |-> "MEDIUM",
     protocols |-> {"EtherFi", "Aave"}, networks |-> {"Arbitrum"}, steps |-> 5, leverageText |-> 5]

\* DEFAULT_CONSTRAINTS of the compete route.
RouteConstraints ==
    [maxLeverage |-> 3, allowedChains |-> {"ethereum", "base", "arbitrum"},
     riskTolerance |-> "MEDIUM", minGasPrice |-> 0, maxGasPrice |-> 200,
     preferredProtocols |-> {"etherfi", "aave", "morpho", "merkl"},
     preferEfficiency |-> TRUE, preferStability |-> TRUE, preferContrarian |-> FALSE]
\* Constraints a request body can carry.
CautiousConstraints ==
    [maxLeverage |-> 2, allowedChains |-> {"Ethereum", "Base"},
     riskTolerance |-> "LOW", minGasPrice |-> 20, maxGasPrice |-> 40,
     preferredProtocols |-> {},
     preferEfficiency |-> FALSE, preferStability |-> FALSE, preferContrarian |-> TRUE]

DecideCatalogs ==
    {<<>>, <<Aggressive>>, <<SimpleHolding, MerklDai, MerklBoost>>,
     <<AaveLoop, Aggressive, SimpleHolding>>, <<SimpleHolding, AaveLoopWeeth, AaveLoop>>,
     <<SimpleHolding, AaveLoopDry>>}

\* The gas prices of the ticks fed to the validating agent.
DecideGasPrices == {12, 20, 55}

DecideFetches ==
    {[threw |-> TRUE, topStrategies |-> <<>>]}
        \cup {[threw |-> FALSE, topStrategies |-> c] : c \in DecideCatalogs}

\* What the oracle does with one messages.create call: a message whose first text
\* block holds (or does not hold) a JSON object, or an error with a status.
ValidatorAnswer(kind, status, message, json, approve, reason, concerns) ==
    [kind |-> kind, status |-> status, message |-> message, json |-> json,
     approve |-> approve, reason |-> reason, concerns |-> concerns]
ValidatorAnswers ==
    {ValidatorAnswer("text", 200, "", "object", "true", "fine", 0),
     ValidatorAnswer("text", 200, "", "object", "false", "too risky", 2),
     ValidatorAnswer("text", 200, "", "object", "false", "", 0),
     ValidatorAnswer("text", 200, "", "object", "yes", "fine", 0),
     ValidatorAnswer("text", 200, "", "object", "true", UndefinedStr, 0),
     ValidatorAnswer("text", 200, "", "none", UndefinedStr, UndefinedStr, 0),
     ValidatorAnswer("error", 404, "model: x", "none", UndefinedStr, UndefinedStr, 0),
     ValidatorAnswer("error", 400, "not_found", "none", UndefinedStr, UndefinedStr, 0),
     ValidatorAnswer("error", 429, "rate_limit_error", "none", UndefinedStr, UndefinedStr, 0),
     ValidatorAnswer("error", 500, "overloaded", "none", UndefinedStr, UndefinedStr, 0)}

InitDecide ==
    /\ clock = 0
    /\ globalLimiter = NewRateLimiter(LimiterCapacity, IntervalTicks, 0)
    /\ grants = <<>>
    /\ InitIdleBucket
    /\ agent \in {NewValidatingAgent("agent-1", c, TRUE, TRUE) :
                      c \in {RouteConstraints, CautiousConstraints}}
                 \cup {NewValidatingAgent("agent-1", RouteConstraints, TRUE, FALSE),
                       NewValidatingAgent("agent-1", RouteConstraints, FALSE, TRUE)}
    /\ cycle = NoCycle

\* Wall-clock time passes.
DecideTick ==
    /\ clock < DayTicks
    /\ clock' = clock + DayTicks
    /\ UNCHANGED <<limiterVars, bucketVars, agentVars>>

\* The simulation moves on to the next day's tick.
DecideNextDay ==
    /\ cycle.path # "validating"
    /\ simDay < MaxDecideDay
    /\ simDay' = simDay + 1
    /\ UNCHANGED <<clock, limiterVars, claudeBucket, dayGrants, agentVars>>

\* decide(market) is called and runs up to its return or its validator call.
DecideBegin ==
    /\ cycle.path # "validating"
    /\ \E gas \in DecideGasPrices, sentiment \in Sentiments, fetch \in DecideFetches :
       \E r \in {decideBegin(agent, claudeBucket, clock, MarketTick(simDay, gas, sentiment), fetch)} :
              /\ agent' = r.agent
              /\ claudeBucket' = r.bucket
              /\ dayGrants' = IF r.budgetGranted
                              THEN [dayGrants EXCEPT ![simDay] = @ + 1] ELSE dayGrants
              /\ cycle' = [path |-> r.path, day |-> simDay, threw |-> r.threw,
                           budgetAsked |-> r.budgetAsked, budgetGranted |-> r.budgetGranted,
                           called |-> <<>>, lastAnswer |-> "none", lastStatus |-> 0,
                           last404 |-> FALSE, verdict |-> NoVerdict,
                           scored |-> [i \in DOMAIN r.scored |->
                                          [opt |-> r.scored[i].opt, netAPY |-> r.scored[i].netAPY]],
                           decision |-> r.decision]
    /\ UNCHANGED <<clock, limiterVars, simDay>>

\* The oracle answers the validator's call in flight; decide() goes on to its return
\* when the validator is done.
DecideOracleReply ==
    /\ cycle.path = "validating"
    /\ \E answer \in ValidatorAnswers :
          LET models == ValidatorModels(agent)
              idx == Len(cycle.called) + 1
              seen == [cycle EXCEPT !.called = Append(@, models[idx]),
                                    !.lastAnswer = answer.kind, !.lastStatus = answer.status,
                                    !.last404 = answer.kind = "error" /\ is404(answer)]
          IN  \E t \in {validatorTurn(models, idx, answer)} :
                 IF t.done
                 THEN \E r \in {decideResolve(agent, cycle.scored, cycle.decision.reasoning,
                                               t.verdict, TRUE)} :
                         /\ agent' = r.agent
                         /\ cycle' = [seen EXCEPT !.path = "decided", !.verdict = t.verdict,
                                                  !.decision = r.decision]
                 ELSE /\ agent' = agent
                      /\ cycle' = seen
    /\ UNCHANGED <<clock, limiterVars, bucketVars>>

NextDecide == DecideTick \/ DecideNextDay \/ DecideBegin \/ DecideOracleReply

SpecDecide == InitDecide /\ [][NextDecide]_vars

\* The same machine with the scheduling the code gives: the route's loop goes on
\* calling decide() and moving to the next day, and time passes.  The answer of
\* the oracle is the environment's step: the await on client.messages.create has
\* no timeout, no abort signal and no race against a timer around it, so nothing
\* on the agent's side forces the call in flight to settle.
SpecDecideLive ==
    SpecDecide /\ WF_vars(DecideBegin) /\ WF_vars(DecideNextDay) /\ WF_vars(DecideTick)

(***************************************************************************)
(* SpecArena: the compete route's loop over the days with two validating   *)
(* agents.  Each day the loop calls decide() of every agent in one         *)
(* synchronous sweep (agents.map) and awaits Promise.all of the promises;  *)
(* the agents' cycles then go on in any interleaving, each at its awaits   *)
(* (the catalog fetch, the validator's calls).  Here agent, claudeBucket   *)
(* and cycle.calls are functions of the agent's display name, and          *)
(* cycle.route is the position of the loop.                                *)
(***************************************************************************)
MaxArenaDay == 1

ArenaAgents == {"Agent 1", "Agent 2"}

\* The constraints of the request body merged over DEFAULT_CONSTRAINTS.
ArenaConstraints(a) == IF a = "Agent 1" THEN RouteConstraints ELSE CautiousConstraints

ArenaGasPrices == {20, 55}

ArenaFetches ==
    {[threw |-> TRUE, topStrategies |-> <<>>],
     [threw |-> FALSE, topStrategies |-> <<>>],
     [threw |-> FALSE, topStrategies |-> <<SimpleHolding, MerklDai, MerklBoost>>]}

ArenaAnswers ==
    {ValidatorAnswer("text", 200, "", "object", "true", "fine", 0),
     ValidatorAnswer("text", 200, "", "object", "false", "too risky", 2),
     ValidatorAnswer("error", 404, "model: x", "none", UndefinedStr, UndefinedStr, 0),
     ValidatorAnswer("error", 500, "overloaded", "none", UndefinedStr, UndefinedStr, 0)}

\* A decide() promise that has not been created yet.
NoCall == [path |-> "none", day |-> NoDay, called |-> 0, scored |-> <<>>, strategy |-> UndefinedStr]

\* decide() was called and is suspended at its first await, or has returned at the
\* gas gate (its promise is settled once the agent's next step runs).
StartedCall(day) ==
    [path |-> "started", day |-> day, called |-> 0, scored |-> <<>>, strategy |-> UndefinedStr]

\* The promise of the call is fulfilled with a Decision.
Fulfilled(call) == call.path \in {"gas-hold", "no-candidates", "decided"}

\* The promise of the call is rejected.
RejectedCall(call) == call.path = "threw"

\* The route's own account of the agents after the day's decisions
\* (decisions.forEach, lines 91-98): a decision whose action is not "HOLD" counts
\* as a transaction, totalGasCosts is never written; results.push adds the day's
\* entry of every agent.
recordDay(perf, calls) ==
    [a \in ArenaAgents |->
        [perf[a] EXCEPT !.transactionCount = @ + (IF calls[a].strategy # "HOLD" THEN 1 ELSE 0),
                        !.entries = @ + 1]]

\* Promise.race-like barrier: one fulfilled promise is enough.
AllFulfilled_AnyIsEnough(calls) == \E a \in ArenaAgents : Fulfilled(calls[a])

\* Promise.all(promises) is fulfilled: every promise is.
AllFulfilled(calls) == \A a \in ArenaAgents : Fulfilled(calls[a])

InitArena ==
    /\ clock = 0
    /\ globalLimiter = NewRateLimiter(LimiterCapacity, IntervalTicks, 0)
    /\ grants = <<>>
    /\ claudeBucket = [a \in ArenaAgents |-> NewDailyTokenBucket(BucketCapacity, DayTicks, 0)]
    /\ simDay = 0
    /\ dayGrants = [d \in Days |-> 0]
    /\ agent = [a \in ArenaAgents |-> NewValidatingAgent(a, ArenaConstraints(a), TRUE, TRUE)]
    /\ cycle = [route |-> "ready", gasPrice |-> 0, calls |-> [a \in ArenaAgents |-> NoCall],
                perf |-> [a \in ArenaAgents |->
                             [transactionCount |-> 0, totalGasCosts |-> 0, entries |-> 0]]]

\* Wall-clock time passes.
ArenaTick ==
    /\ clock < DayTicks
    /\ clock' = clock + DayTicks
    /\ UNCHANGED <<limiterVars, bucketVars, agentVars>>

\* POST: the loop's first iteration calls decide(marketData[0]) of every agent.
ArenaPost ==
    /\ cycle.route = "ready"
    /\ \E gas \in ArenaGasPrices :
          cycle' = [cycle EXCEPT !.route = "awaiting", !.gasPrice = gas,
                                   !.calls = [a \in ArenaAgents |-> StartedCall(simDay)]]
    /\ UNCHANGED <<clock, limiterVars, bucketVars, agent>>

\* One agent's decide() goes on from its first await up to its return or to its
\* validator call.
ArenaDecideBegin(a) ==
    /\ cycle.calls[a].path = "started"
    /\ \E fetch \in ArenaFetches :
       \E r \in {decideBegin(agent[a], claudeBucket[a], clock,
                             MarketTick(cycle.calls[a].day, cycle.gasPrice, "NEUTRAL"), fetch)} :
          /\ agent' = [agent EXCEPT ![a] = r.agent]
          /\ claudeBucket' = [claudeBucket EXCEPT ![a] = r.bucket]
          /\ dayGrants' = IF r.budgetGranted
                          THEN [dayGrants EXCEPT ![cycle.calls[a].day] = @ + 1] ELSE dayGrants
          /\ cycle' = [cycle EXCEPT !.calls[a] =
                          [path |-> r.path, day |-> @.day, called |-> 0,
                           scored |-> [i \in DOMAIN r.scored |->
                                          [opt |-> r.scored[i].opt, netAPY |-> r.scored[i].netAPY]],
                           strategy |-> r.decision.strategy]]
    /\ UNCHANGED <<clock, limiterVars, simDay>>

\* The oracle answers the validator call one agent has in flight.
ArenaOracleReply(a) ==
    /\ cycle.calls[a].path = "validating"
    /\ \E answer \in ArenaAnswers :
          LET models == ValidatorModels(agent[a])
              idx == cycle.calls[a].called + 1
          IN  \E t \in {validatorTurn(models, idx, answer)} :
                 IF t.done
                 THEN \E r \in {decideResolve(agent[a], cycle.calls[a].scored,
                                               <<"Picked by math">>, t.verdict, TRUE)} :
                         /\ agent' = [agent EXCEPT ![a] = r.agent]
                         /\ cycle' = [cycle EXCEPT !.calls[a].path = "decided",
                                                   !.calls[a].called = idx,
                                                   !.calls[a].strategy = r.decision.strategy]
                 ELSE /\ agent' = agent
                      /\ cycle' = [cycle EXCEPT !.calls[a].called = idx]
    /\ UNCHANGED <<clock, limiterVars, bucketVars>>

\* Promise.all is fulfilled: the loop records the day and, in the same turn, either
\* calls decide(marketData[i + 1]) of every agent or leaves the loop.
ArenaNextDay ==
    /\ cycle.route = "awaiting"
    /\ AllFulfilled(cycle.calls)
    /\ IF simDay < MaxArenaDay
       THEN /\ simDay' = simDay + 1
            /\ \E gas \in ArenaGasPrices :
                  cycle' = [route |-> "awaiting", gasPrice |-> gas,
                            calls |-> [a \in ArenaAgents |-> StartedCall(simDay + 1)],
                            perf |-> recordDay(cycle.perf, cycle.calls)]
       ELSE /\ simDay' = simDay
            /\ cycle' = [cycle EXCEPT !.route = "finished",
                                      !.perf = recordDay(cycle.perf, cycle.calls)]
    /\ UNCHANGED <<clock, limiterVars, claudeBucket, dayGrants, agent>>

\* Promise.all is rejected as soon as one decide() is: the handler's catch answers
\* 500 and the loop is over; the other agents' cycles of the day still run on.
ArenaFail ==
    /\ cycle.route = "awaiting"
    /\ \E a \in ArenaAgents : RejectedCall(cycle.calls[a])
    /\ cycle' = [cycle EXCEPT !.route = "failed"]
    /\ UNCHANGED <<clock, limiterVars, bucketVars, agent>>

NextArena ==
    \/ ArenaTick
    \/ ArenaPost
    \/ \E a \in ArenaAgents : ArenaDecideBegin(a)
    \/ \E a \in ArenaAgents : ArenaOracleReply(a)
    \/ ArenaNextDay
    \/ ArenaFail

SpecArena == InitArena /\ [][NextArena]_vars

(***************************************************************************)
(* SpecShared: the cycles of two hybrid agents running concurrently on the *)
(* one process-wide limiter.  take() is a synchronous method (it holds no  *)
(* await), so each call runs to completion; the cycles interleave at the   *)
(* await of the oracle call that follows a granted take().  Here cycle is  *)
(* a function of the agent's name: "idle" or "asking" (oracle call in      *)
(* flight).                                                                *)
(***************************************************************************)
InitShared ==
    /\ clock = 0
    /\ globalLimiter = NewRateLimiter(LimiterCapacity, IntervalTicks, 0)
    /\ grants = <<>>
    /\ InitIdleBucket
    /\ agent = [a \in ArenaAgents |-> NewHybridAgent(a, NoConstraints)]
    /\ cycle = [a \in ArenaAgents |-> "idle"]

\* The wall clock advances.
SharedTick ==
    /\ clock < MaxClock
    /\ clock' = clock + 1
    /\ UNCHANGED <<limiterVars, bucketVars, agentVars>>

\* An agent's cycle reaches `if (globalLimiter.take())`: granted, it goes on to
\* await the oracle; denied, it finishes on the numeric pick.
SharedTake(a) ==
    /\ cycle[a] = "idle"
    /\ \E t \in {take(globalLimiter, clock)} :
          /\ globalLimiter' = t.lim
          /\ grants' = IF t.ok THEN Append(grants, clock) ELSE grants
          /\ cycle' = IF t.ok THEN [cycle EXCEPT ![a] = "asking"] ELSE cycle
    /\ UNCHANGED <<clock, bucketVars, agent>>

\* The oracle call of an agent's cycle settles and the cycle finishes.
SharedOracleDone(a) ==
    /\ cycle[a] = "asking"
    /\ cycle' = [cycle EXCEPT ![a] = "idle"]
    /\ UNCHANGED <<clock, limiterVars, bucketVars, agent>>

NextShared ==
    \/ SharedTick
    \/ \E a \in ArenaAgents : SharedTake(a)
    \/ \E a \in ArenaAgents : SharedOracleDone(a)

SpecShared == InitShared /\ [][NextShared]_vars

(***************************************************************************)
(* SpecRank: the filter-score-sort stage run again and again on one        *)
(* catalog snapshot, one market tick, one set of constraints and one agent *)
(* name, all drawn at the start, while everything else moves between the   *)
(* runs: the agent commits decisions (its own top or the oracle's pick),   *)
(* the wall clock advances and other cycles draw on the shared limiter.    *)
(* The agent is a hybrid agent or a validating agent (cycle.flavour).      *)
(***************************************************************************)
MaxRuns == 2

\* A second Merkl opportunity on the same market with the same APR.
MerklUsds ==
    [name |-> "Merkl Boost: USDS on Morpho (Base)", expectedAPY |-> 6900, risk |-> "LOW",
     protocols |-> {"Morpho", "Merkl", "EtherFi"}, networks |-> {"Base"}, steps |-> 4, leverageText |-> 0]

RankCatalogs ==
    {<<SimpleHolding, MerklDai, MerklBoost>>,
     <<MerklUsds, MerklBoost>>,
     <<AaveLoop, Aggressive, SimpleHolding>>,
     <<SimpleHolding, AaveLoopWeeth, AaveLoop>>}

\* A request body that lists no chain: { allowedChains: [] } merged over the
\* defaults.
AnyChainConstraints == [RouteConstraints EXCEPT !.allowedChains = {}]

RankGasPrices == {12, 20, 40, 55}

\* What the validator's first call brings in a run: a verdict, or a failure.
RankVerdictAnswers ==
    {ValidatorAnswer("text", 200, "", "object", "true", "fine", 0),
     ValidatorAnswer("text", 200, "", "object", "false", "too risky", 2),
     ValidatorAnswer("error", 500, "overloaded", "none", UndefinedStr, UndefinedStr, 0)}

\* The ranked list as the claims read it: candidate and score, best first.
RankingOf(scored, Candidate(_)) ==
    [i \in DOMAIN scored |-> [opt |-> Candidate(scored[i]), score |-> scored[i].score]]

\* One run of the hybrid agent's cycle and what its ranking stage produced
\* (nothing when the cycle ended at the gas gate).
hybridRun(a, lim, now, marketData, catalog, answer) ==
    LET r == makeDecision(a, lim, now, marketData,
                          [threw |-> FALSE, topStrategies |-> catalog], answer)
        eligible == IF r.fetched THEN filterByConstraints(a.constraints, catalog) ELSE <<>>
        S(e) == e.s
    IN  [agent |-> r.agent, limiter |-> r.limiter, bucket |-> claudeBucket,
         path |-> r.path, ranked |-> r.path = "decided", fetched |-> r.fetched,
         filtered |-> eligible,
         refiltered |-> filterByConstraints(a.constraints, eligible),
         ranking |-> RankingOf(scoreAndSort(a, eligible, marketData.gasPrice), S),
         advisory |-> r.oracleCalls > 0, limiterGranted |-> r.limiterGranted,
         budgetGranted |-> FALSE, strategy |-> r.decision.strategy]

\* One run of the validating agent's cycle (the validator settles at its first
\* call) and what its ranking stage produced.
validatingRun(a, bucket, now, marketData, catalog, answer) ==
    LET b == decideBegin(a, bucket, now, marketData,
                         [threw |-> FALSE, topStrategies |-> catalog])
        t == validatorTurn(<<a.anthropicModel>>, 1, answer)
        r == IF b.path = "validating"
             THEN decideResolve(a, b.scored, b.decision.reasoning, t.verdict, TRUE)
             ELSE [agent |-> b.agent, decision |-> b.decision]
        filtered == IF b.path # "gas-hold" THEN decideFilter(a.constraints, catalog) ELSE <<>>
        Opt(e) == e.opt
    IN  [agent |-> r.agent, limiter |-> globalLimiter, bucket |-> b.bucket,
         path |-> IF b.path = "validating" THEN "decided" ELSE b.path,
         ranked |-> b.path \in {"validating", "decided"},
         fetched |-> b.path # "gas-hold",
         filtered |-> filtered,
         refiltered |-> decideFilter(a.constraints, filtered),
         ranking |-> RankingOf(decideScore(a.constraints, filtered, marketData), Opt),
         advisory |-> b.budgetGranted, limiterGranted |-> FALSE,
         budgetGranted |-> b.budgetGranted, strategy |-> r.decision.strategy]

InitRank ==
    /\ clock = 0
    /\ globalLimiter = NewRateLimiter(LimiterCapacity, IntervalTicks, 0)
    /\ grants = <<>>
    /\ InitIdleBucket
    /\ \E name \in ArenaAgents :
          \/ \E k \in HybridConstraints : agent = NewHybridAgent(name, k)
          \/ \E k \in {RouteConstraints, CautiousConstraints, AnyChainConstraints},
                v \in BOOLEAN :
                agent = NewValidatingAgent(name, k, v, TRUE)
    /\ \E catalog \in RankCatalogs, gas \in RankGasPrices, sentiment \in Sentiments :
          cycle = [flavour |-> IF "bias" \in DOMAIN agent THEN "hybrid" ELSE "validating",
                   catalog |-> catalog, gasPrice |-> gas, sentiment |-> sentiment,
                   runs |-> 0, path |-> "none", ranked |-> FALSE, fetched |-> FALSE,
                   first |-> <<>>, last |-> <<>>, filtered |-> <<>>, refiltered |-> <<>>,
                   advisory |-> FALSE, strategy |-> UndefinedStr]

\* Wall-clock time passes between two runs.
RankTick ==
    /\ clock < DayTicks
    /\ clock' = clock + DayTicks
    /\ UNCHANGED <<limiterVars, bucketVars, agentVars>>

\* Another agent's cycle takes a token of the shared limiter.
RankOtherTake ==
    /\ cycle.flavour = "hybrid"
    /\ cycle.runs < MaxRuns
    /\ \E t \in {take(globalLimiter, clock)} :
          /\ globalLimiter' = t.lim
          /\ grants' = IF t.ok THEN Append(grants, clock) ELSE grants
    /\ UNCHANGED <<clock, bucketVars, agentVars>>

\* The agent's cycle runs on the snapshot and the tick drawn at the start.
RankRun ==
    /\ cycle.runs < MaxRuns
    /\ LET market == MarketTick(simDay, cycle.gasPrice, cycle.sentiment) IN
       \E r \in IF cycle.flavour = "hybrid"
                THEN {hybridRun(agent, globalLimiter, clock, market, cycle.catalog, answer) :
                         answer \in ChooserAnswers}
                ELSE {validatingRun(agent, claudeBucket, clock, market, cycle.catalog, answer) :
                         answer \in RankVerdictAnswers} :
          /\ agent' = r.agent
          /\ globalLimiter' = r.limiter
          /\ grants' = IF r.limiterGranted THEN Append(grants, clock) ELSE grants
          /\ claudeBucket' = r.bucket
          /\ dayGrants' = IF r.budgetGranted
                          THEN [dayGrants EXCEPT ![simDay] = @ + 1] ELSE dayGrants
          /\ cycle' = [cycle EXCEPT
                          !.runs = @ + 1, !.path = r.path, !.ranked = r.ranked,
                          !.fetched = r.fetched,
                          !.first = IF cycle.runs = 0 THEN r.ranking ELSE @,
                          !.last = r.ranking,
                          !.filtered = r.filtered, !.refiltered = r.refiltered,
                          !.advisory = r.advisory, !.strategy = r.strategy]
    /\ UNCHANGED <<clock, simDay>>

NextRank == RankTick \/ RankOtherTake \/ RankRun

SpecRank == InitRank /\ [][NextRank]_vars

(***************************************************************************)
(* SpecPair: two agents of one kind (two hybrid agents on the process-wide *)
(* limiter, or two validating agents, each with the budget its constructor *)
(* made), their cycles interleaved at the await of the oracle call.        *)
(***************************************************************************)
\* The cycles each agent runs.
MaxPairRuns == 2

\* Fields held in one place for all the agents: a write by one agent is a
\* write for all.
StoreOwn_Shared(f, a, v) == [x \in DOMAIN f |-> v]

\* A write to a field of the instance `a`: portfolio, transactions,
\* currentStrategy, currentAPY (part_005), lastChosen, lastAPY, claudeBucket
\* (part_004) are instance fields set in the constructor.
StoreOwn(f, a, v) == [f EXCEPT ![a] = v]

\* No oracle call of the agent is in flight.
NoPending == [none |-> TRUE]

InitPair ==
    /\ clock = 0
    /\ globalLimiter = NewRateLimiter(LimiterCapacity, IntervalTicks, 0)
    /\ grants = <<>>
    /\ claudeBucket = [a \in ArenaAgents |-> NewDailyTokenBucket(BucketCapacity, DayTicks, 0)]
    /\ simDay = 0
    /\ dayGrants = [d \in Days |-> 0]
    /\ \/ agent = [a \in ArenaAgents |-> NewHybridAgent(a, WideConstraints)]
       \/ agent = [a \in ArenaAgents |-> NewValidatingAgent(a, ArenaConstraints(a), TRUE, TRUE)]
    /\ \E catalog \in LedgerCatalogs, gas \in ArenaGasPrices :
          cycle = [flavour |-> IF "bias" \in DOMAIN agent["Agent 1"] THEN "hybrid"
                               ELSE "validating",
                   catalog |-> catalog, gasPrice |-> gas,
                   runs |-> [a \in ArenaAgents |-> 0],
                   pending |-> [a \in ArenaAgents |-> NoPending]]

\* One agent's cycle runs from its start to its return or, when it calls the
\* oracle, to the await of that call: the limiter or the budget has been asked by
\* then, the position is written after the answer.
PairBegin(a) ==
    /\ cycle.runs[a] < MaxPairRuns
    /\ cycle.pending[a] = NoPending
    /\ LET day == cycle.runs[a]
           market == MarketTick(day, cycle.gasPrice, "NEUTRAL") IN
       \E r \in IF cycle.flavour = "hybrid"
                THEN {hybridRun(agent[a], globalLimiter, clock, market, cycle.catalog, answer) :
                         answer \in ChooserAnswers}
                ELSE {validatingRun(agent[a], claudeBucket[a], clock, market, cycle.catalog,
                                    answer) : answer \in RankVerdictAnswers} :
          /\ agent' = IF r.advisory THEN agent ELSE StoreOwn(agent, a, r.agent)
          /\ globalLimiter' = IF cycle.flavour = "hybrid" THEN r.limiter ELSE globalLimiter
          /\ grants' = IF r.limiterGranted THEN Append(grants, clock) ELSE grants
          /\ claudeBucket' = IF cycle.flavour = "hybrid" THEN claudeBucket
                              ELSE StoreOwn(claudeBucket, a, r.bucket)
          /\ dayGrants' = IF r.budgetGranted
                          THEN [dayGrants EXCEPT ![day] = @ + 1] ELSE dayGrants
          /\ cycle' = [cycle EXCEPT !.runs[a] = @ + 1,
                                    !.pending[a] = IF r.advisory THEN r.agent ELSE NoPending]
    /\ UNCHANGED <<clock, simDay>>

\* The oracle call one agent has in flight returns and the cycle writes the
\* agent's position.
PairSettle(a) ==
    /\ cycle.pending[a] # NoPending
    /\ agent' = StoreOwn(agent, a, cycle.pending[a])
    /\ cycle' = [cycle EXCEPT !.pending[a] = NoPending]
    /\ UNCHANGED <<clock, limiterVars, bucketVars>>

NextPair ==
    \/ \E a \in ArenaAgents : PairBegin(a)
    \/ \E a \in ArenaAgents : PairSettle(a)

SpecPair == InitPair /\ [][NextPair]_vars

(***************************************************************************)
(* Claims about the ledger.                                                *)
(***************************************************************************)
\* C1 (as claimed): fed the ticks of days 0, 1, 2, ... in order, an agent's ledger
\* holds exactly d + 1 transactions after day d is processed, entry i carrying
\* day i (no day skipped, none twice), on every path of the cycle.
C1_OneEntryPerDay ==
    /\ Len(agent.transactions) = simDay
    /\ \A i \in DOMAIN agent.transactions : agent.transactions[i].day = i - 1

\* C2: portfolioAfter of each ledger entry is portfolioBefore of the next one, the
\* first entry starts from the initial balance and the agent's balance is the last
\* entry's portfolioAfter: the balance changes in the ledger step only.
C2_BalanceContinuity ==
    LET tx == agent.transactions IN
    /\ \A i \in 1 .. Len(tx) - 1 : tx[i].portfolioAfter = tx[i + 1].portfolioBefore
    /\ tx # <<>> => tx[1].portfolioBefore = InitialPortfolio
    /\ agent.portfolio = IF tx = <<>> THEN InitialPortfolio ELSE tx[Len(tx)].portfolioAfter

\* C2 witness: two ledger steps ran and each moved the balance.
C2_Witness ==
    /\ Len(agent.transactions) >= 2
    /\ \A i \in 1 .. 2 :
          agent.transactions[i].portfolioAfter # agent.transactions[i].portfolioBefore

\* C3 (as claimed): for every ledger entry i > 0, gasCost[i] > 0 if and only if
\* action[i] differs from action[i-1]; for entry 0, if and only if action[0]
\* differs from the strategy the agent starts with.
C3_GasIffActionChanged ==
    LET tx == agent.transactions
        start == NewCatalogAgent(agent.name).currentStrategy
    IN  \A i \in DOMAIN tx :
            (tx[i].gasCost > 0) <=> (tx[i].action # (IF i = 1 THEN start ELSE tx[i - 1].action))

(***************************************************************************)
(* Claims about failures, the gas gate and the validator.                  *)
(***************************************************************************)
\* The decision of the hybrid agent's catch block.
IsApiErrorHold(c) ==
    /\ c.decision.strategy = c.prevStrategy
    /\ c.decision.expectedAPY = c.prevAPY
    /\ c.decision.reasoning = "API error, maintaining current position"

\* The ledger step of the cycle ran exactly once: one more transaction than the
\* days before it, for the cycle's day, from the balance before the cycle.
LedgerRanOnce(c) ==
    /\ Len(agent.transactions) = c.day + 1
    /\ agent.transactions[c.day + 1].day = c.day
    /\ agent.transactions[c.day + 1].portfolioBefore = c.prevPortfolio
    /\ agent.transactions[c.day + 1].action = c.decision.strategy

\* C4 (as claimed): if any step of the hybrid agent's cycle throws (catalog fetch,
\* oracle call, parsing of the oracle's answer), makeDecision does not propagate
\* the error, returns the keep-current decision with reasoning "API error,
\* maintaining current position", and the ledger step runs exactly once.
C4_AnyFailureKeepsPosition ==
    (cycle.path = "caught" \/ (cycle.path = "decided" /\ cycle.oracleFailure # "none")) =>
        /\ ~cycle.threw
        /\ IsApiErrorHold(cycle)
        /\ LedgerRanOnce(cycle)

\* C4 (amended): no failure propagates and the ledger step runs exactly once in
\* every cycle; a failed catalog fetch yields the keep-current decision with
\* reasoning "API error, maintaining current position"; a failed oracle call
\* yields the top numeric candidate with the numeric reasoning; an oracle answer
\* that does not parse yields the first candidate offered to the oracle.
C4_FailuresDegradeTheDecision ==
    cycle.path # "none" =>
        /\ ~cycle.threw
        /\ LedgerRanOnce(cycle)
        /\ cycle.path = "caught" => IsApiErrorHold(cycle)
        /\ (cycle.path = "decided" /\ cycle.oracleFailure = "call") =>
              /\ cycle.decision.reasoning = "Selected by numeric score respecting constraints"
              /\ cycle.decision.strategy = NullishStr(cycle.topPick, fallbackStrategy.name)
        /\ (cycle.path = "decided" /\ cycle.oracleFailure = "parse") =>
              /\ cycle.decision.strategy = NullishStr(cycle.topPick, fallbackStrategy.name)

\* A cycle of day 1 whose oracle call failed, after a day whose catalog fetch failed.
C4_Witness ==
    /\ cycle.path = "decided" /\ cycle.oracleFailure = "call" /\ cycle.day = 1
    /\ cycle.decision.strategy # cycle.prevStrategy
    /\ agent.transactions[1].reasoning = "API error, maintaining current position"

\* Whether a reasoning text of the model speaks of the rate limit.
MentionsRateLimit(text) == text \in {" Skipped Claude validation due to daily rate limit."}

\* C6 (as claimed): in a cycle of the hybrid agent that finds the process-wide
\* limiter without a token, the oracle is not called and the reasoning of the
\* decision states that validation was skipped because of the rate limit.
C6_ExhaustedLimiterIsReported ==
    (cycle.path = "decided" /\ cycle.limiterAsked /\ ~cycle.limiterGranted) =>
        /\ cycle.oracleCalls = 0
        /\ MentionsRateLimit(cycle.decision.reasoning)

\* C5 (as claimed): when the tick's gas price is outside the validating agent's
\* gas window, the returned decision names the agent's strategy before the cycle
\* and carries its APY before the cycle (the agent keeps no ledger: no gas is
\* charged).
C5_GasHoldRepeatsPosition ==
    cycle.path = "gas-hold" =>
        /\ cycle.decision.strategy = getCurrentStrategy(agent).strategy
        /\ cycle.decision.expectedAPY = getCurrentStrategy(agent).apy

\* The validator explicitly rejected the top candidate of the cycle.
Rejected(c) == c.path = "decided" /\ c.verdict # NoVerdict /\ ~c.verdict.approve

\* The positions of the scored list that qualify as the alternative, the
\* candidate at position i being another one than the top when Other(i) holds.
Alternatives(c, Other(_)) ==
    {i \in DOMAIN c.scored :
        /\ Other(i)
        /\ Abs(c.scored[i].netAPY - c.scored[1].netAPY) > 250
        /\ riskRank(c.scored[i].opt.risk) <= riskRank(agent.constraints.riskTolerance) + 1}

\* After a rejection the decision is the first of the alternatives, with
\* reasoning that ends with the switch, or HOLD when there is none.
SwitchedOrHeld(c, alts) ==
    LET r == c.decision.reasoning IN
    IF alts = {}
    THEN /\ c.decision.strategy = "HOLD"
         /\ c.decision.expectedAPY = 0
         /\ r[Len(r)] = " No safe alternative found. Holding."
    ELSE LET first == CHOOSE i \in alts : \A j \in alts : i <= j IN
         /\ c.decision.strategy = c.scored[first].opt.name
         /\ c.decision.expectedAPY = ToFixed2(c.scored[first].netAPY)
         /\ agent.lastChosen = c.scored[first].opt
         /\ r[Len(r)] = " Switching to alternative"

LastCallFailed(c) == c.path \in {"validating", "decided"} /\ c.lastAnswer = "error"

\* The validator returned no opinion and decide() committed the top candidate.
CommittedTopUnvalidated(c) ==
    /\ c.path = "decided"
    /\ c.verdict = NoVerdict
    /\ c.decision.strategy = c.scored[1].opt.name
    /\ c.decision.expectedAPY = ToFixed2(c.scored[1].netAPY)
    /\ agent.lastChosen = c.scored[1].opt

OracleCalled(c) ==
    c.path = "validating" \/ (c.path = "decided" /\ c.called # <<>>)

\* C11 (as claimed): the validating agent calls the oracle in a cycle only if
\* both the agent's day-scoped budget and the process-wide token bucket granted
\* a token in that cycle.
C11_BothLimitersGateTheOracle ==
    OracleCalled(cycle) =>
        /\ cycle.budgetGranted /\ dayGrants[cycle.day] > 0
        /\ grants # <<>>

\* The cycle committed the top-scored candidate, as after an approval: no HOLD,
\* no alternative search.
CommittedTop(c) ==
    /\ c.decision.strategy = c.scored[1].opt.name
    /\ c.decision.action = "ENTER_OR_MAINTAIN"
    /\ c.decision.expectedAPY = ToFixed2(c.scored[1].netAPY)
    /\ c.decision.protocols = c.scored[1].opt.protocols
    /\ agent.lastChosen = c.scored[1].opt
    /\ agent.lastAPY = c.scored[1].netAPY
    /\ \A i \in DOMAIN c.decision.reasoning :
          c.decision.reasoning[i] \notin {" Switching to alternative",
                                          " No safe alternative found. Holding."}

\* C12: whenever the validator yields no verdict (oracle error, unparsable
\* response, missing API key, budget denial), the cycle commits the top-scored
\* candidate as it does after an approval: never HOLD, never an alternative.
C12_NoVerdictCommitsTop ==
    (cycle.path = "decided" /\ cycle.verdict = NoVerdict) => CommittedTop(cycle)

\* A cycle whose budget was denied, with an alternative a rejection would have
\* switched to.
C12_Witness ==
    /\ cycle.path = "decided" /\ cycle.verdict = NoVerdict
    /\ cycle.budgetAsked /\ ~cycle.budgetGranted
    /\ Len(cycle.scored) = 3
    /\ Abs(cycle.scored[3].netAPY - cycle.scored[1].netAPY) > 250

\* C13 (as claimed): a cycle whose validator call is in flight eventually returns
\* a Decision, whether or not the oracle ever answers: the stalled call is cut off
\* and read as no opinion.
C13_StalledOracleIsCutOff ==
    (cycle.path = "validating") ~> (cycle.path = "decided")

\* C14: in the route's loop no agent's cycle for day N+1 starts while some
\* agent's cycle for day N has not completed, in every interleaving of the agents'
\* steps within the day.
C14_DayBarrier ==
    [][\A a \in ArenaAgents :
          (cycle.calls[a].day # NoDay /\ cycle'.calls[a].day # cycle.calls[a].day)
              => /\ cycle'.calls[a].day = cycle.calls[a].day + 1
                 /\ \A b \in ArenaAgents :
                       cycle.calls[b].day = cycle.calls[a].day /\ Fulfilled(cycle.calls[b])]_vars

\* The loop passed the barrier once, and on the second day one agent's cycle has
\* completed while the other's validator call is still in flight.
C14_Witness ==
    /\ simDay = 1
    /\ cycle.calls["Agent 1"].day = 1 /\ cycle.calls["Agent 1"].path = "decided"
    /\ cycle.calls["Agent 2"].day = 1 /\ cycle.calls["Agent 2"].path = "validating"

(***************************************************************************)
(* Claims about the limiters.                                              *)
(***************************************************************************)
\* How many take() calls returned true at a time in the half-open interval (lo, hi].
GrantsIn(lo, hi) == Cardinality({i \in DOMAIN grants : grants[i] > lo /\ grants[i] <= hi})

\* C9 (as claimed): on one agent's day-scoped budget at most one tryConsume(day)
\* returns true per simulated day, whatever the wall clock does between the calls.
C9_AtMostOneGrantPerDay == \A d \in Days : dayGrants[d] <= 1

\* C10 (as claimed): in any wall-clock interval of length T (one refill interval)
\* at most C (the capacity) calls to take() return true.
C10_AtMostCapacityPerInterval ==
    \A t \in 0 .. clock : GrantsIn(t - globalLimiter.refillIntervalMs, t) <= globalLimiter.capacity

\* C10 (amended): between two consecutive refill boundaries (the windows
\* [kT, (k+1)T) counted from the limiter's construction) at most C calls return
\* true, and so in any wall-clock interval of length T at most 2C calls do.
C10_AtMostCapacityPerWindow ==
    /\ \A k \in 0 .. (clock \div globalLimiter.refillIntervalMs) :
          GrantsIn(k * globalLimiter.refillIntervalMs - 1,
                   (k + 1) * globalLimiter.refillIntervalMs - 1) <= globalLimiter.capacity
    /\ \A t \in 0 .. clock :
          GrantsIn(t - globalLimiter.refillIntervalMs, t) <= 2 * globalLimiter.capacity

\* C10 witness: the bucket was emptied twice within one interval of length T.
C10_Witness ==
    /\ globalLimiter.tokens = 0
    /\ GrantsIn(clock - globalLimiter.refillIntervalMs, clock) = 2 * globalLimiter.capacity

\* How many take() calls returned true since the limiter's last refill.
GrantsSinceRefill == Cardinality({i \in DOMAIN grants : grants[i] >= globalLimiter.lastRefill})

\* C15: with the agents' cycles calling take() in any interleaving no update is
\* lost: the token count stays within 0 .. capacity, every call that returned true
\* since the last refill is accounted for in it, and so at most capacity calls
\* return true between two refills.
C15_NoLostUpdate ==
    /\ globalLimiter.tokens \in 0 .. globalLimiter.capacity
    /\ globalLimiter.tokens = globalLimiter.capacity - GrantsSinceRefill
    /\ GrantsSinceRefill <= globalLimiter.capacity

\* Both agents hold a granted token with their oracle calls in flight, the bucket
\* has been refilled at least once and is empty again.
C15_Witness ==
    /\ \A a \in ArenaAgents : cycle[a] = "asking"
    /\ globalLimiter.lastRefill > 0
    /\ globalLimiter.tokens = 0

\* C16 (as claimed): whatever a cycle scores, shows to the oracle or commits as
\* the decision's strategy passed the agent's constraint filter in that cycle.
C16_OnlyFilteredIsCommitted ==
    cycle.path = "decided" =>
        /\ cycle.shown \subseteq cycle.eligible
        /\ cycle.decision.strategy \in cycle.eligible

\* C17 (as claimed): when no catalog candidate passes the filter the cycle returns
\* HOLD with expectedAPY = 0, charges no gas, calls no oracle and raises no error.
C17_NothingEligibleHolds ==
    (cycle.path = "decided" /\ cycle.eligible = {}) =>
        /\ cycle.decision.strategy = "HOLD"
        /\ cycle.decision.expectedAPY = 0
        /\ ~cycle.limiterAsked /\ cycle.oracleCalls = 0
        /\ ~cycle.threw

(***************************************************************************)
(* Claims about the filter and the ranking.                                *)
(***************************************************************************)
\* C18: two runs of filter-score-sort on the same catalog snapshot, market tick,
\* constraints and agent name give the same ranked order (and the same scores),
\* whatever the agent committed, and whatever the clock and the limiter did,
\* between the runs.
C18_RankingIsDeterministic ==
    (cycle.runs >= 2 /\ cycle.ranked) => cycle.last = cycle.first

\* A hybrid agent ranked two candidates or more twice, and between the two runs it
\* held a strategy that was not the top of its ranking (the oracle's pick).
C18_Witness ==
    /\ cycle.flavour = "hybrid" /\ cycle.runs = 2 /\ cycle.ranked
    /\ Len(cycle.first) >= 2
    /\ agent.transactions[1].action # cycle.first[1].opt.name

\* xs is a subsequence of ys: the elements of xs, in their order, among those of ys.
RECURSIVE IsSubSeq(_, _)
IsSubSeq(xs, ys) ==
    IF xs = <<>> THEN TRUE
    ELSE IF ys = <<>> THEN FALSE
    ELSE IF Head(xs) = Head(ys) THEN IsSubSeq(Tail(xs), Tail(ys))
    ELSE IsSubSeq(xs, Tail(ys))

\* C19: the candidate filter is idempotent, filter(filter(catalog)) =
\* filter(catalog), and its result is a subsequence of the catalog in catalog order.
C19_FilterIdempotentInOrder ==
    cycle.runs > 0 =>
        /\ cycle.refiltered = cycle.filtered
        /\ IsSubSeq(cycle.filtered, cycle.catalog)

\* The filter dropped the middle one of three candidates and kept the other two.
C19_Witness ==
    /\ cycle.ranked
    /\ Len(cycle.catalog) = 3 /\ Len(cycle.filtered) = 2
    /\ cycle.filtered[1] = cycle.catalog[1] /\ cycle.filtered[2] = cycle.catalog[3]

\* Two candidates of the same risk tier, step count and leverage hint.
SameClass(x, y) ==
    x.risk = y.risk /\ x.steps = y.steps /\ x.leverageText = y.leverageText

\* C20: of two filtered candidates of the same risk tier, step count and leverage
\* hint, under the same market tick, the one with the strictly higher expectedAPY
\* has the strictly higher score and is ranked before the other; and with no
\* advisory call the top of the ranked list is the committed strategy.
C20_HigherAPYRanksFirst ==
    (cycle.ranked /\ cycle.path = "decided") =>
        /\ \A i, j \in DOMAIN cycle.last :
              (SameClass(cycle.last[i].opt, cycle.last[j].opt)
                 /\ cycle.last[i].opt.expectedAPY > cycle.last[j].opt.expectedAPY)
                  => cycle.last[i].score > cycle.last[j].score /\ i < j
        /\ (~cycle.advisory /\ cycle.last # <<>>) => cycle.strategy = cycle.last[1].opt.name

\* With no advisory call the agent committed the top of its list, a candidate that
\* stands in the catalog behind a candidate of its class with a lower expectedAPY.
C20_Witness ==
    /\ cycle.ranked /\ cycle.path = "decided" /\ ~cycle.advisory
    /\ Len(cycle.last) = 3
    /\ cycle.last[1].opt = cycle.catalog[3]
    /\ cycle.last[2].opt = cycle.catalog[2]
    /\ SameClass(cycle.last[1].opt, cycle.last[2].opt)
    /\ cycle.last[1].opt.expectedAPY > cycle.last[2].opt.expectedAPY
    /\ cycle.strategy = cycle.last[1].opt.name

(***************************************************************************)
(* Claims about the retry, the gates and the filter's tests.               *)
(***************************************************************************)
\* C21 (as claimed): when the oracle call fails with a throttling error the same
\* call is made once more after a wait of max(server retry hint, 16 s) (a missing
\* hint leaves the floor as the least wait); the cycle makes two oracle calls, and
\* if the retry fails too it returns the keep-current decision with the ledger
\* step run exactly once.
C21_ThrottledCallRetriedOnceAfterWait ==
    (cycle.path # "none" /\ cycle.firstKind = "error429") =>
        /\ cycle.oracleCalls = 2
        /\ cycle.sleptMs >= 16000
        /\ cycle.retryAfter \notin {UndefinedNum, NaNNum}
              => cycle.sleptMs = Max(cycle.retryAfter * 1000, 16000)
        /\ cycle.secondKind # "text" =>
              /\ cycle.decision.strategy = cycle.prevStrategy
              /\ cycle.decision.reasoning = "API error, maintaining current position"
              /\ agent.currentStrategy = cycle.prevStrategy
              /\ agent.currentAPY = cycle.prevAPY
              /\ Len(agent.transactions) = cycle.prevLedger + 1
              /\ agent.transactions[Len(agent.transactions)].portfolioBefore = cycle.prevPortfolio

\* C22: a response of a model of the chain that does not parse into a verdict
\* (boolean approve, string reason) ends the validator at once with no opinion:
\* no further model is called and the cycle commits as it does without a verdict.
C22_UnusableAnswerEndsChain ==
    (cycle.path \in {"validating", "decided"} /\ cycle.lastAnswer = "text"
        /\ cycle.verdict = NoVerdict)
      => /\ cycle.path = "decided"
         /\ CommittedTop(cycle)

\* The validator got an unusable response from a model that is not the last of its
\* chain, and the cycle has returned.
C22_Witness ==
    /\ cycle.path = "decided" /\ cycle.lastAnswer = "text" /\ cycle.verdict = NoVerdict
    /\ cycle.called # <<>>
    /\ Len(cycle.called) < Len(ValidatorModels(agent))

\* The tick's gas price lies outside the agent's inclusive window [min, max].
OutsideGasWindow(a, gasPrice) ==
    /\ a.constraints # NoConstraints
    /\ gasPrice < a.constraints.minGasPrice \/ gasPrice > a.constraints.maxGasPrice

\* C23: the gas gate runs first.  A cycle ends at the gate exactly when the gas
\* price is outside the inclusive window (a price equal to min or to max is
\* inside); a cycle that ends at the gate fetches no catalog, filters and scores
\* nothing, takes no token of the process-wide limiter or of the day's budget and
\* calls no oracle.
C23_GasGateRunsFirst ==
    [][cycle'.runs # cycle.runs =>
          /\ (cycle'.path = "gas-hold") = OutsideGasWindow(agent, cycle.gasPrice)
          /\ cycle'.path = "gas-hold" =>
                /\ ~cycle'.fetched /\ ~cycle'.ranked /\ ~cycle'.advisory
                /\ globalLimiter' = globalLimiter /\ grants' = grants
                /\ claudeBucket' = claudeBucket /\ dayGrants' = dayGrants]_vars

\* A cycle at the upper bound of the window, or at the lower one, went past the
\* gate to the catalog; so did one of an agent built without constraints.
C23_Witness ==
    /\ cycle.runs > 0 /\ cycle.fetched /\ cycle.ranked
    /\ agent.constraints # NoConstraints
    /\ cycle.gasPrice \in {agent.constraints.minGasPrice, agent.constraints.maxGasPrice}

\* C24 (as claimed): a candidate passes the filter only if its risk tier index is
\* at most the index of the agent's ceiling tier (LOW < MEDIUM < HIGH < EXTREME);
\* a candidate one tier above the ceiling is excluded.
C24_RiskCeilingIsHard ==
    (cycle.runs > 0 /\ agent.constraints # NoConstraints) =>
        \A i \in DOMAIN cycle.filtered :
            RiskIndexOf(cycle.filtered[i].risk) <= RiskIndexOf(agent.constraints.riskTolerance)

\* The network test and the protocol test as the claim states them (names compared
\* without regard to case).
NetworkTestClaimed(c, opt) ==
    \/ c.allowedChains = {}
    \/ opt.networks = {}
    \/ {ToLowerCase(n) : n \in opt.networks} \cap {ToLowerCase(n) : n \in c.allowedChains} # {}
ProtocolTestClaimed(c, opt) ==
    \/ c.preferredProtocols = {}
    \/ {ToLowerCase(p) : p \in opt.protocols}
          \cap {ToLowerCase(p) : p \in c.preferredProtocols} # {}

\* The candidate is in the filter's output.
Kept(opt) == \E i \in DOMAIN cycle.filtered : cycle.filtered[i] = opt

\* C25 (as claimed): a candidate passes the network test iff the allowed-network
\* set is empty, or the candidate declares no networks, or the two sets intersect,
\* and the protocol test iff the preferred-protocol set is empty or intersects the
\* candidate's protocols: what the filter keeps passes both tests, and a candidate
\* within the risk ceiling that passes both is kept.
C25_NetworkAndProtocolTests ==
    (cycle.runs > 0 /\ cycle.fetched /\ agent.constraints # NoConstraints) =>
        \A i \in DOMAIN cycle.catalog :
            LET opt == cycle.catalog[i]
                both == NetworkTestClaimed(agent.constraints, opt)
                            /\ ProtocolTestClaimed(agent.constraints, opt)
            IN  /\ Kept(opt) => both
                /\ (both /\ RiskIndexOf(opt.risk) <= RiskIndexOf(agent.constraints.riskTolerance))
                      => Kept(opt)

\* The position of a candidate's name in the lexicographic order of the names.
NameRank(name) ==
    CASE name = "Aave Loop x5 (Ethereum)" -> 1
      [] name = "Aggressive: Borrow USDC -> Deploy to Morpho" -> 2
      [] name = "Merkl Boost: DAI on Morpho (Base)" -> 3
      [] name = "Merkl Boost: USDC on Morpho (Base)" -> 4
      [] name = "Merkl Boost: USDS on Morpho (Base)" -> 5
      [] OTHER -> 6

\* C26 (as claimed): the ranked list is in descending score order and two
\* candidates of equal score stand in the order of their names, whatever order
\* the catalog lists them in.
C26_TiesOrderedByName ==
    cycle.ranked =>
        \A i, j \in DOMAIN cycle.last :
            i < j => \/ cycle.last[i].score > cycle.last[j].score
                     \/ /\ cycle.last[i].score = cycle.last[j].score
                        /\ NameRank(cycle.last[i].opt.name) <= NameRank(cycle.last[j].opt.name)

(***************************************************************************)
(* Claims about the ledger step's arithmetic and the agent's position.     *)
(***************************************************************************)
\* C27 (as claimed): after every ledger step of the oracle-driven agent its
\* current strategy is the decision's strategy and its current APY is the
\* decision's expectedAPY, whatever the decision.
C27_PositionFollowsDecision ==
    (cycle # NoCycle /\ Len(agent.transactions) > cycle.prevLedger) =>
        /\ agent.currentStrategy = cycle.decision.strategy
        /\ agent.currentAPY = cycle.decision.expectedAPY

\* The transaction the last cycle pushed.
LastTx == agent.transactions[Len(agent.transactions)]

\* C28: in the hybrid agent's ledger step the gas cost (3 micro-ETH per gwei when
\* the strategy changes, else 0) is debited before the yield is computed on what
\* is left, and the transaction carries that gasCost, the balance before the
\* step and the balance after it.
C28_GasDebitedBeforeYield ==
    (cycle # NoCycle /\ cycle.ledgerSteps >= 1) =>
        LET gasCost  == IF cycle.decision.strategy # cycle.prevStrategy
                        THEN cycle.gasPrice * 3 ELSE 0
            afterGas == cycle.prevPortfolio - gasCost
            after    == afterGas + DailyYield(afterGas, cycle.decision.expectedAPY)
        IN  /\ agent.portfolio = after
            /\ LastTx.gasCost = gasCost
            /\ LastTx.portfolioBefore = cycle.prevPortfolio
            /\ LastTx.portfolioAfter = after

\* A ledger step that changed the strategy, paid gas, and earned a yield that
\* the balance before the debit would have rounded differently.
C28_Witness ==
    /\ cycle # NoCycle /\ cycle.ledgerSteps >= 1
    /\ cycle.decision.strategy # cycle.prevStrategy
    /\ LastTx.gasCost > 0
    /\ DailyYield(cycle.prevPortfolio, cycle.decision.expectedAPY)
          # DailyYield(cycle.prevPortfolio - LastTx.gasCost, cycle.decision.expectedAPY)

(***************************************************************************)
(* Claims about take() and about what one agent's cycle may touch.         *)
(***************************************************************************)
\* C29: on the process-wide bucket, with take() called at non-decreasing clock
\* times, the token count stays within 0 .. capacity, and a call to take()
\*   - that finds at least one token (after its lazy refill) returns true and
\*     leaves one token fewer than it found;
\*   - that finds no token with less than one interval elapsed since lastRefill
\*     returns false and changes nothing;
\*   - made once a full interval has elapsed since lastRefill finds the bucket
\*     full.
C29_TakeContract ==
    /\ [](globalLimiter.tokens \in 0 .. globalLimiter.capacity)
    /\ [][clock' = clock =>
            LET due   == clock - globalLimiter.lastRefill >= globalLimiter.refillIntervalMs
                found == IF due THEN globalLimiter.capacity ELSE globalLimiter.tokens
            IN  /\ globalLimiter.tokens >= 1 => grants' = Append(grants, clock)
                /\ found >= 1 => /\ grants' = Append(grants, clock)
                                 /\ globalLimiter'.tokens = found - 1
                /\ (globalLimiter.tokens = 0 /\ ~due) =>
                       /\ grants' = grants
                       /\ globalLimiter' = globalLimiter
                /\ due => /\ globalLimiter'.tokens = globalLimiter.capacity - 1
                          /\ globalLimiter'.lastRefill > globalLimiter.lastRefill
                          /\ clock - globalLimiter'.lastRefill < globalLimiter.refillIntervalMs
       ]_vars

\* The bucket was refilled with tokens left in it, emptied again, and the clock
\* has moved on by less than an interval: the next take() finds no token.
C29_Witness ==
    /\ globalLimiter.tokens = 0
    /\ globalLimiter.lastRefill > 0
    /\ Len(grants) > globalLimiter.capacity
    /\ Len(grants) < 2 * globalLimiter.capacity
    /\ clock > grants[Len(grants)]
    /\ clock - globalLimiter.lastRefill < globalLimiter.refillIntervalMs

\* The step is a step of the agent's cycle.
Acted(a) ==
    \/ cycle'.runs[a] # cycle.runs[a]
    \/ cycle'.pending[a] # cycle.pending[a]

\* C30: a step of one agent's cycle leaves every other agent's position (balance,
\* current strategy, current APY, transaction list; last choice and its APY) and
\* day-scoped budget as they were, and is no step of another agent's cycle; of
\* the state the agents have in common it can change only the process-wide
\* bucket.
C30_CycleTouchesOwnStateOnly ==
    [][\A a \in ArenaAgents :
          Acted(a) =>
              /\ \A b \in ArenaAgents \ {a} :
                    /\ agent'[b] = agent[b]
                    /\ claudeBucket'[b] = claudeBucket[b]
                    /\ ~Acted(b)
              /\ cycle'.catalog = cycle.catalog
              /\ cycle'.gasPrice = cycle.gasPrice
              /\ clock' = clock]_vars

\* Agent 1's cycle has taken a token of the common bucket and written its
\* ledger, Agent 2's ledger is still empty and its own oracle call is in flight
\* on a second token.
C30_Witness ==
    /\ cycle.flavour = "hybrid"
    /\ Len(agent["Agent 1"].transactions) = 1
    /\ agent["Agent 2"].transactions = <<>>
    /\ cycle.pending["Agent 2"] # NoPending
    /\ globalLimiter.tokens = globalLimiter.capacity - 2

(***************************************************************************)
(* Claims about the reported performance, the net APY and the oracle's     *)
(* say.                                                                    *)
(***************************************************************************)
\* C31 (as claimed): the performance reported for an agent follows from its
\* ledger: the transaction count is the number of the agent's recorded entries
\* and the cumulative gas cost is the sum of their gas costs.
C31_PerformanceFollowsLedger ==
    \A a \in ArenaAgents :
        /\ cycle.perf[a].transactionCount = cycle.perf[a].entries
        /\ cycle.perf[a].totalGasCosts = 0

\* C32 (as claimed): the net APY after costs of every candidate the validating
\* agent scored, and the expectedAPY of the decision it returned, is never
\* negative.
C32_NetAPYNeverNegative ==
    cycle # NoCycle =>
        /\ \A i \in DOMAIN cycle.scored : cycle.scored[i].netAPY >= 0
        /\ cycle.decision.expectedAPY >= 0

\* The oracle's answer named a strategy and no candidate handed to it reads the
\* same after trimming and lower-casing.
NamedOutsideTheList ==
    /\ cycle.oracleCalls > 0
    /\ cycle.picked \notin {UndefinedStr, ""}
    /\ \A n \in cycle.shown : normalize(n) # normalize(cycle.picked)

\* C33: in the hybrid agent the strategy a deciding cycle commits is one of the
\* top candidates (five at most) handed to the oracle, or the built-in
\* fallback strategy when that list is empty, whatever the oracle answers: a
\* choice other than the numeric top pick is a listed candidate the oracle named,
\* and an answer naming no listed candidate leaves the numeric top pick.
C33_OracleChoosesWithinTheList ==
    cycle.path = "decided" =>
        /\ Cardinality(cycle.shown) <= TopN
        /\ cycle.shown = {} => cycle.decision.strategy = "Simple weETH Holding"
        /\ cycle.shown # {} =>
              /\ cycle.decision.strategy \in cycle.shown
              /\ cycle.decision.strategy # cycle.topPick =>
                    /\ cycle.picked # UndefinedStr
                    /\ normalize(cycle.picked) = normalize(cycle.decision.strategy)
              /\ NamedOutsideTheList => cycle.decision.strategy = cycle.topPick
        /\ agent.currentStrategy = cycle.decision.strategy

\* The oracle named a strategy that is not on the list it was handed, and the
\* cycle committed the numeric top pick.
C33_Witness ==
    /\ cycle.path = "decided"
    /\ cycle.shown # {}
    /\ NamedOutsideTheList
    /\ agent.currentStrategy = cycle.topPick

(***************************************************************************)
(* Claims about the validator's calls, the day's token and the             *)
(* catalog-keyed agent's position.                                         *)
(***************************************************************************)
\* C34 (as claimed): in one run of the validator the models are called in the
\* order of the list, each at most once, the next one only after the call before
\* it failed with a 404 / not-found error; at most as many calls are made as the
\* list is long, and the validator returns at the first response and at the
\* first error of another kind.
C34_ModelsInOrderEachOnce ==
    cycle # NoCycle =>
        LET models == ValidatorModels(agent)
            called == cycle.called
        IN  /\ Len(called) <= Len(models)
            /\ \A i \in DOMAIN called : called[i] = models[i]
            /\ \A i, j \in DOMAIN called : i # j => called[i] # called[j]
            /\ (cycle.path = "validating" /\ called # <<>>) => cycle.last404
            /\ (cycle.path = "decided" /\ called # <<>>) =>
                  \/ cycle.lastAnswer = "text"
                  \/ ~cycle.last404
                  \/ Len(called) = Len(models)

\* The last cycle asked the validator with the day's token and got no verdict:
\* the call failed or its answer was not usable.
AttemptWithoutVerdict ==
    /\ cycle.path = "decided"
    /\ cycle.budgetGranted
    /\ cycle.called # <<>>
    /\ cycle.verdict = NoVerdict

\* C35 (as claimed): the day's token is spent when it is granted and is not
\* given back: after a validation attempt of day d that failed or gave no
\* verdict, the next decide() for the same day d is granted no token, calls no
\* oracle and, where it reaches the validation step, says that validation was
\* skipped due to the daily rate limit.
C35_FailedAttemptKeepsTheToken ==
    [][(AttemptWithoutVerdict /\ cycle' # cycle /\ cycle'.day = cycle.day) =>
          /\ ~cycle'.budgetGranted
          /\ cycle'.path # "validating"
          /\ cycle'.called = <<>>
          /\ cycle'.path = "decided" =>
                \E i \in DOMAIN cycle'.decision.reasoning :
                    MentionsRateLimit(cycle'.decision.reasoning[i])]_vars

\* C36 (as claimed): in the catalog-keyed agent currentStrategy is a key of the
\* strategy catalog after every makeDecision call, whatever the oracle answered,
\* and every call recorded its day's transaction.
C36_PositionIsACatalogKey ==
    /\ agent.currentStrategy \in DOMAIN ETHERFI_STRATEGIES
    /\ cycle # NoCycle => Len(agent.transactions) = cycle.day + 1

====
